---- MODULE Spec2Model ----
(***************************************************************************)
(* Job Hierarchy Engine of vladprrs/ajtbd: the SQLite-backed repositories  *)
(* (BaseRepo, JobRepo, SolutionRepo, EdgeRepo) and the tools that mutate   *)
(* the job tree (graph_create, small_jobs_generate, micro_jobs_generate,   *)
(* micro_jobs_generate_all, job_insert_after, job_update, job_reorder)     *)
(* together with Job deletion, the graph routes (POST /api/graphs and      *)
(* POST /api/graphs/:id/validate) and the text normalization and           *)
(* validation behind them.                                                 *)
(*                                                                         *)
(* Spec runs the tree tools from the empty database, SpecEdit the editing  *)
(* tools and routes on a graph the tools have built, SpecValidate          *)
(* validation on a whole graph, SpecNormalize the text functions alone.    *)
(* SpecOverlap runs generator calls that overlap while they wait for the   *)
(* language model, SpecStore BaseRepo over one table with a moving clock,  *)
(* SpecRateLimit the HTTP server's rate limiter, SpecMigrate runMigrations *)
(* over restarts of the process.                                           *)
(*                                                                         *)
(* Rows are records; ids are positive naturals handed out by a counter     *)
(* (crypto.randomUUID never repeats an id), NULL is SQL NULL.              *)
(***************************************************************************)
EXTENDS Naturals, Integers, Sequences, FiniteSets, TLC

VARIABLES graphs, jobs, solutions, edges, nextId, calls, last, norm,
          pending, clock, rows, returned, env, rateBuckets, passed, response,
          directory, database, process

vars == <<graphs, jobs, solutions, edges, nextId, calls, last, norm,
          pending, clock, rows, returned, env, rateBuckets, passed, response,
          directory, database, process>>

\* the state of the hierarchy's database, the call made on it and the calls
\* that wait for the language model
dbVars == <<graphs, jobs, solutions, edges, nextId, calls, last, pending>>

\* what the tools and routes of the hierarchy never touch: the clock, the generic
\* entity store, the HTTP server's rate limiter, the migrations directory, the
\* migrated database file and the starting process
otherVars == <<clock, rows, returned, env, rateBuckets, passed, response,
               directory, database, process>>

----------------------------------------------------------------------------
(* Bounds of the model *)

\* number of calls made
MaxCalls == 4
\* number of graph rows ever created
MaxGraphs == 2
\* ids handed out to Job rows (every create consumes one, deleted ids are not reused);
\* micro_jobs_generate_all, which fills a whole graph, is not held to it
MaxId == 16
\* Solution and Edge rows ever created
MaxSolutions == 1
MaxEdges == 1

----------------------------------------------------------------------------
(* Program constants *)

NULL == 0

\* SmallJobsResponseSchema: jobs.min(8).max(12)
MinSmallJobs == 8
MaxSmallJobs == 12
\* MicroJobsResponseSchema: jobs.min(3).max(6)
MinMicroJobs == 3
MaxMicroJobs == 6
\* jobInsertAfterTool: maxByLevel
MaxSmallSiblings == 12
MaxMicroSiblings == 6
\* smallJobsGenerateTool: count.default(10)
DefaultSmallCount == 10
\* microJobsGenerateAllTool: countPerJob.default(4)
DefaultCountPerJob == 4
\* validateGraph: validateJobCounts(jobs, "small", null, 8, 12)
ValidMinSmallJobs == 8
ValidMaxSmallJobs == 12
\* validateGraph: validateJobCounts(jobs, "micro", smallJob.id, 3, 6)
ValidMinMicroJobs == 3
ValidMaxMicroJobs == 6

\* an optional field the caller leaves out
Undefined == "undefined"

\* an id that names no row
MissingId == MaxId + 1

----------------------------------------------------------------------------
(* Text.  A string is the sequence of its characters; a Latin character is *)
(* itself, a Cyrillic character is named by "c_" and its transliteration   *)
(* ("c_ya" is the Cyrillic letter ya, "C_YA" its capital).                 *)

LowerLetters ==
  <<"a", "b", "c", "d", "e", "f", "g", "h", "i", "j", "k", "l", "m",
    "n", "o", "p", "q", "r", "s", "t", "u", "v", "w", "x", "y", "z",
    "c_ya", "c_h", "c_o", "c_ch", "c_u", "c_t", "c_e", "c_l", "c_b", "c_y",
    "c_m", "c_n", "c_zh", "c_d", "c_i", "c_a", "c_k">>

UpperLetters ==
  <<"A", "B", "C", "D", "E", "F", "G", "H", "I", "J", "K", "L", "M",
    "N", "O", "P", "Q", "R", "S", "T", "U", "V", "W", "X", "Y", "Z",
    "C_YA", "C_H", "C_O", "C_CH", "C_U", "C_T", "C_E", "C_L", "C_B", "C_Y",
    "C_M", "C_N", "C_ZH", "C_D", "C_I", "C_A", "C_K">>

\* the lower-case letter of each capital, and the capital of each lower-case letter
LowerOf ==
  [c \in {UpperLetters[i] : i \in 1..Len(UpperLetters)} |->
     LowerLetters[CHOOSE i \in 1..Len(UpperLetters) : UpperLetters[i] = c]]

UpperOf ==
  [c \in {LowerLetters[i] : i \in 1..Len(LowerLetters)} |->
     UpperLetters[CHOOSE i \in 1..Len(LowerLetters) : LowerLetters[i] = c]]

\* String.prototype.toLowerCase, one character
toLowerCaseChar(c) == IF c \in DOMAIN LowerOf THEN LowerOf[c] ELSE c

\* String.prototype.toUpperCase, one character
toUpperCaseChar(c) == IF c \in DOMAIN UpperOf THEN UpperOf[c] ELSE c

toLowerCase(s) == [i \in 1..Len(s) |-> toLowerCaseChar(s[i])]

\* s.slice(n): s without its first n characters
slice(s, n) == IF n >= Len(s) THEN <<>> ELSE SubSeq(s, n + 1, Len(s))

startsWith(s, prefix) ==
  Len(prefix) <= Len(s) /\ SubSeq(s, 1, Len(prefix)) = prefix

\* the characters \s matches and trim() removes
IsSpace(c) == c \in {" ", "\t", "\n"}

RECURSIVE trimStart(_)
trimStart(s) == IF s # <<>> /\ IsSpace(Head(s)) THEN trimStart(Tail(s)) ELSE s

RECURSIVE trimEnd(_)
trimEnd(s) ==
  IF s # <<>> /\ IsSpace(s[Len(s)]) THEN trimEnd(SubSeq(s, 1, Len(s) - 1)) ELSE s

\* String.prototype.trim
trim(s) == trimEnd(trimStart(s))

\* s.replace(/^<leadIn>\s+/i, replacement): leadIn is given in lower case
replaceLeadIn(s, leadIn, replacement) ==
  IF /\ startsWith(toLowerCase(s), leadIn)
     /\ Len(s) > Len(leadIn)
     /\ IsSpace(s[Len(leadIn) + 1])
  THEN replacement \o trimStart(slice(s, Len(leadIn)))
  ELSE s

CANONICAL_PREFIX_RU == <<"C_YA", " ", "c_h", "c_o", "c_ch", "c_u">>
CANONICAL_PREFIX_EN == <<"I", " ", "w", "a", "n", "t", " ", "t", "o">>

\* the lead-ins of FORMULATION_NORMALIZE_RU, in order
FORMULATION_NORMALIZE_RU ==
  << <<"c_ya", " ", "c_h", "c_o", "c_t", "c_e", "c_l", " ", "c_b", "c_y">>,
     <<"c_m", "c_n", "c_e", " ", "c_n", "c_u", "c_zh", "c_n", "c_o">>,
     <<"c_m", "c_n", "c_e", " ", "c_n", "c_e", "c_o", "c_b", "c_h", "c_o", "c_d",
       "c_i", "c_m", "c_o">>,
     <<"c_h", "c_o", "c_ch", "c_u">>,
     <<"c_n", "c_u", "c_zh", "c_n", "c_o">> >>

\* the lead-ins of FORMULATION_NORMALIZE_EN, in order
FORMULATION_NORMALIZE_EN ==
  << <<"i", " ", "n", "e", "e", "d", " ", "t", "o">>,
     <<"i", " ", "w", "o", "u", "l", "d", " ", "l", "i", "k", "e", " ", "t", "o">>,
     <<"i", "'", "d", " ", "l", "i", "k", "e", " ", "t", "o">>,
     <<"w", "a", "n", "t", " ", "t", "o">>,
     <<"n", "e", "e", "d", " ", "t", "o">> >>

\* for (const [pattern, replacement] of patterns) result = result.replace(...)
RECURSIVE applyPatterns(_, _, _, _)
applyPatterns(s, patterns, replacement, i) ==
  IF i > Len(patterns) THEN s
  ELSE applyPatterns(replaceLeadIn(s, patterns[i], replacement), patterns,
                     replacement, i + 1)

\* normalizeFormulation
normalizeFormulation(formulation, language) ==
  LET patterns == IF language = "ru" THEN FORMULATION_NORMALIZE_RU
                  ELSE FORMULATION_NORMALIZE_EN
      canonicalPrefix == IF language = "ru" THEN CANONICAL_PREFIX_RU
                         ELSE CANONICAL_PREFIX_EN
      result == applyPatterns(trim(formulation), patterns,
                              canonicalPrefix \o <<" ">>, 1)
  IN IF ~startsWith(toLowerCase(result), toLowerCase(canonicalPrefix))
     THEN canonicalPrefix \o <<" ">> \o result
     ELSE canonicalPrefix \o slice(result, Len(canonicalPrefix))

\* the first-person prefixes normalizeLabel and extractLabel remove
LabelPrefixes(language) ==
  IF language = "ru"
  THEN << <<"c_ya", " ", "c_h", "c_o", "c_ch", "c_u", " ">>,
          <<"c_ya", " ", "c_h", "c_o", "c_t", "c_e", "c_l", " ", "c_b", "c_y", " ">>,
          <<"c_m", "c_n", "c_e", " ", "c_n", "c_u", "c_zh", "c_n", "c_o", " ">> >>
  ELSE << <<"i", " ", "w", "a", "n", "t", " ", "t", "o", " ">>,
          <<"i", " ", "n", "e", "e", "d", " ", "t", "o", " ">>,
          <<"i", " ", "w", "o", "u", "l", "d", " ", "l", "i", "k", "e", " ", "t", "o",
            " ">> >>

\* for (const prefix of prefixes) if (...startsWith(prefix)) result = result.slice(...)
RECURSIVE removePrefixes(_, _, _)
removePrefixes(s, prefixes, i) ==
  IF i > Len(prefixes) THEN s
  ELSE removePrefixes(IF startsWith(toLowerCase(s), prefixes[i])
                      THEN slice(s, Len(prefixes[i])) ELSE s,
                      prefixes, i + 1)

\* result.charAt(0).toUpperCase() + result.slice(1)
capitalize(s) == IF s = <<>> THEN s ELSE <<toUpperCaseChar(Head(s))>> \o Tail(s)

\* result.replace(/\.$/, "")
removeTrailingPeriod(s) ==
  IF s # <<>> /\ s[Len(s)] = "." THEN SubSeq(s, 1, Len(s) - 1) ELSE s

\* normalizeLabel
normalizeLabel(label, language) ==
  removeTrailingPeriod(capitalize(removePrefixes(trim(label), LabelPrefixes(language), 1)))

----------------------------------------------------------------------------
(* The database: the four tables the engine reads and writes *)

Db(G, J, S, E) == [graphs |-> G, jobs |-> J, solutions |-> S, edges |-> E]

db == Db(graphs, jobs, solutions, edges)

NoJob ==
  [id |-> NULL, graphId |-> NULL, level |-> "none", parentId |-> NULL,
   formulation |-> <<>>, label |-> <<>>, phase |-> "none", cadence |-> "none",
   sortOrder |-> 0]

NoGraph == [id |-> NULL, language |-> "none", coreJobId |-> NULL, bigJobId |-> NULL]

\* BaseRepo.findById on jobs: the row or null
findById(J, id) ==
  IF \E j \in J : j.id = id THEN CHOOSE j \in J : j.id = id ELSE NoJob

\* BaseRepo.findById on graphs
findGraphById(G, id) ==
  IF \E g \in G : g.id = id THEN CHOOSE g \in G : g.id = id ELSE NoGraph

\* ORDER BY sort_order ASC (rows with equal sort_order: in id order)
RECURSIVE OrderBySortOrder(_)
OrderBySortOrder(S) ==
  IF S = {} THEN <<>>
  ELSE LET m == CHOOSE j \in S : \A k \in S :
                  \/ j.sortOrder < k.sortOrder
                  \/ (j.sortOrder = k.sortOrder /\ j.id <= k.id)
       IN <<m>> \o OrderBySortOrder(S \ {m})

\* JobRepo.findByParentId: direct children in sortOrder
findByParentId(J, parentId) ==
  OrderBySortOrder({j \in J : j.parentId = parentId})

\* JobRepo.findRootJobs: the graph's jobs without a parent, in sortOrder
findRootJobs(J, graphId) ==
  OrderBySortOrder({j \in J : j.graphId = graphId /\ j.parentId = NULL})

\* JobRepo.findByLevel
findByLevel(J, graphId, level) ==
  OrderBySortOrder({j \in J : j.graphId = graphId /\ j.level = level})

\* JobRepo.countChildren
countChildren(J, parentId) == Cardinality({j \in J : j.parentId = parentId})

Ids(seq) == [i \in 1..Len(seq) |-> seq[i].id]

Range(seq) == {seq[i] : i \in 1..Len(seq)}

----------------------------------------------------------------------------
(* Writes.  A write returns [threw, db]: whether it raised, and the tables *)
(* as the statements executed so far left them.                            *)

Ok(d) == [threw |-> FALSE, error |-> "", db |-> d]
Threw(d, e) == [threw |-> TRUE, error |-> e, db |-> d]

\* a mutant of transaction: the writes of a failed body stay
transactionNoRollback(pre, r) == r

\* BaseRepo.transaction: db.transaction(fn)() rolls back when fn throws
transaction(pre, r) == IF r.threw THEN Threw(pre, r.error) ELSE r

\* jobs table: graph_id REFERENCES graphs(id), parent_id REFERENCES jobs(id), level CHECK
JobConstraintsOk(d, row) ==
  /\ \E g \in d.graphs : g.id = row.graphId
  /\ row.parentId = NULL \/ \E j \in d.jobs : j.id = row.parentId
  /\ row.level \in {"big", "core", "small", "micro"}

\* BaseRepo.create on jobs: INSERT, then read the row back, in one transaction.
\* ioError: the INSERT statement raises (storage error).
create(d, data, id, ioError) ==
  transaction(d,
    IF ioError \/ ~JobConstraintsOk(d, data)
    THEN Threw(d, "insert failed")
    ELSE Ok([d EXCEPT !.jobs = @ \cup {[id |-> id, graphId |-> data.graphId,
                                        level |-> data.level, parentId |-> data.parentId,
                                        formulation |-> data.formulation,
                                        label |-> data.label, phase |-> data.phase,
                                        cadence |-> data.cadence,
                                        sortOrder |-> data.sortOrder]}]))

\* jobs.map((job) => this.create(job)): the i-th row gets id firstId + i - 1;
\* the failAt-th INSERT raises (0: none does)
RECURSIVE createEach(_, _, _, _, _)
createEach(d, batch, i, firstId, failAt) ==
  IF i > Len(batch) THEN Ok(d)
  ELSE LET r == create(d, batch[i], firstId + i - 1, failAt = i)
       IN IF r.threw THEN r ELSE createEach(r.db, batch, i + 1, firstId, failAt)

\* JobRepo.createMany
createMany(d, batch, firstId, failAt) ==
  transaction(d, createEach(d, batch, 1, firstId, failAt))

\* a mutant of shiftSubsequent: sort_order >= ? instead of sort_order > ?
shiftSubsequentFromAnchor(J, afterJob) ==
  {IF /\ j.graphId = afterJob.graphId
      /\ j.parentId = afterJob.parentId
      /\ j.sortOrder >= afterJob.sortOrder
   THEN [j EXCEPT !.sortOrder = @ + 1] ELSE j : j \in J}

\* JobRepo.insertAfter, "Shift all subsequent jobs":
\* UPDATE jobs SET sort_order = sort_order + 1
\*  WHERE graph_id = ? AND parent_id (= ? | IS NULL) AND sort_order > ?
shiftSubsequent(J, afterJob) ==
  {IF /\ j.graphId = afterJob.graphId
      /\ j.parentId = afterJob.parentId
      /\ j.sortOrder > afterJob.sortOrder
   THEN [j EXCEPT !.sortOrder = @ + 1] ELSE j : j \in J}

\* JobRepo.insertAfter: find the anchor, shift, create, in one transaction
\* a mutant of insertAfter: the later siblings are not shifted
insertAfterNoShift(d, afterJobId, newJob, id, ioError) ==
  transaction(d,
    LET afterJob == findById(d.jobs, afterJobId)
    IN IF afterJob = NoJob
       THEN Threw(d, "Job not found")
       ELSE create(d, [newJob EXCEPT !.sortOrder = afterJob.sortOrder + 1],
                   id, ioError))

insertAfter(d, afterJobId, newJob, id, ioError) ==
  transaction(d,
    LET afterJob == findById(d.jobs, afterJobId)
    IN IF afterJob = NoJob
       THEN Threw(d, "Job not found")
       ELSE create([d EXCEPT !.jobs = shiftSubsequent(@, afterJob)],
                   [newJob EXCEPT !.sortOrder = afterJob.sortOrder + 1],
                   id, ioError))

\* the index (from 0) of the last occurrence of id in jobIds
LastIndexOf(jobIds, id) ==
  (CHOOSE i \in 1..Len(jobIds) :
      jobIds[i] = id /\ \A k \in (i + 1)..Len(jobIds) : jobIds[k] # id) - 1

\* a mutant of reorder: the loop starts at index 1, the first id is never written
reorderSkipFirst(d, jobIds) ==
  transaction(d,
    Ok([d EXCEPT !.jobs =
          {IF \E i \in 2..Len(jobIds) : jobIds[i] = j.id
           THEN [j EXCEPT !.sortOrder = LastIndexOf(jobIds, j.id)]
           ELSE j : j \in @}]))

\* JobRepo.reorder: jobIds.forEach((id, index) => UPDATE jobs SET sort_order = index
\* WHERE id = id), in one transaction
reorder(d, jobIds) ==
  transaction(d,
    Ok([d EXCEPT !.jobs =
          {IF \E i \in 1..Len(jobIds) : jobIds[i] = j.id
           THEN [j EXCEPT !.sortOrder = LastIndexOf(jobIds, j.id)]
           ELSE j : j \in @}]))

\* a mutant of cascade: only the direct children follow their parent
cascadeOneLevel(J, ids) == ids \cup {j.id : j \in {k \in J : k.parentId \in ids}}

\* jobs.parent_id REFERENCES jobs(id) ON DELETE CASCADE: the ids removed with ids
RECURSIVE cascade(_, _)
cascade(J, ids) ==
  LET more == ids \cup {j.id : j \in {k \in J : k.parentId \in ids}}
  IN IF more = ids THEN ids ELSE cascade(J, more)

\* BaseRepo.delete on jobs: DELETE FROM jobs WHERE id = ?, with the schema's
\* ON DELETE CASCADE on jobs.parent_id, solutions.job_id, edges.from_id, edges.to_id
deleteJob(d, id) ==
  transaction(d,
    LET gone == IF \E j \in d.jobs : j.id = id THEN cascade(d.jobs, {id}) ELSE {}
    IN Ok([d EXCEPT !.jobs = {j \in @ : j.id \notin gone},
                    !.solutions = {s \in @ : s.jobId \notin gone},
                    !.edges = {e \in @ : e.fromId \notin gone /\ e.toId \notin gone}]))

\* solutions.job_id REFERENCES jobs(id): BaseRepo.create on solutions
createSolution(d, id, jobId) ==
  transaction(d,
    IF \E j \in d.jobs : j.id = jobId
    THEN Ok([d EXCEPT !.solutions = @ \cup {[id |-> id, jobId |-> jobId]}])
    ELSE Threw(d, "insert failed"))

\* edges.graph_id, from_id, to_id REFERENCES: BaseRepo.create on edges
createEdge(d, id, graphId, fromId, toId) ==
  transaction(d,
    IF /\ \E g \in d.graphs : g.id = graphId
       /\ \E j \in d.jobs : j.id = fromId
       /\ \E j \in d.jobs : j.id = toId
    THEN Ok([d EXCEPT !.edges = @ \cup {[id |-> id, graphId |-> graphId,
                                           fromId |-> fromId, toId |-> toId]}])
    ELSE Threw(d, "insert failed"))

----------------------------------------------------------------------------
(* The tools.  A tool returns [result, db, created]: its answer, the tables *)
(* it leaves and the ids of the Jobs it created.                           *)

Answer(result, d, created) == [result |-> result, db |-> d, created |-> created]

\* the payload of a Job row; content is its formulation, label, phase and cadence
JobRow(graphId, level, parentId, content, sortOrder) ==
  [graphId |-> graphId, level |-> level, parentId |-> parentId,
   formulation |-> content.formulation, label |-> content.label,
   phase |-> content.phase, cadence |-> content.cadence, sortOrder |-> sortOrder]

\* for (const prefix of prefixes) if (...startsWith(prefix)) { slice; break }
RECURSIVE removeFirstPrefix(_, _, _)
removeFirstPrefix(s, prefixes, i) ==
  IF i > Len(prefixes) THEN s
  ELSE IF startsWith(toLowerCase(s), prefixes[i]) THEN slice(s, Len(prefixes[i]))
  ELSE removeFirstPrefix(s, prefixes, i + 1)

\* extractLabel of the graph_create tool
extractLabel(formulation, language) ==
  capitalize(removeFirstPrefix(formulation, LabelPrefixes(language), 1))

\* the content of the big and core Jobs graph_create writes
RootContent(formulation, language) ==
  [formulation |-> formulation, label |-> extractLabel(formulation, language),
   phase |-> "during", cadence |-> "once"]

\* graphCreateTool.execute: the graph row with placeholder job ids, the big Job
\* (when bigJob is given), the core Job under it, then the graph row updated.
\* Each create is its own transaction; the failAt-th Job INSERT raises (0: none).
\* input is [language, coreJob, bigJob]; a bigJob left out is the empty text,
\* which `bigJob ?` takes for absent as well.
graphCreateTool(d, graphId, firstId, input, failAt) ==
  LET withBig == input.bigJob # <<>>
      d1 == [d EXCEPT !.graphs = @ \cup
               {[id |-> graphId, language |-> input.language, coreJobId |-> MissingId,
                 bigJobId |-> IF withBig THEN MissingId ELSE NULL]}]
      big == IF withBig
             THEN create(d1, JobRow(graphId, "big", NULL,
                                    RootContent(input.bigJob, input.language), 0),
                         firstId, failAt = 1)
             ELSE Ok(d1)
      createdBigJobId == IF withBig THEN firstId ELSE NULL
      coreId == IF withBig THEN firstId + 1 ELSE firstId
      core == create(big.db, JobRow(graphId, "core", createdBigJobId,
                                    RootContent(input.coreJob, input.language), 0),
                     coreId, failAt = (IF withBig THEN 2 ELSE 1))
  IN IF big.threw THEN Answer("threw", big.db, <<>>)
     ELSE IF core.threw
          THEN Answer("threw", core.db, IF withBig THEN <<firstId>> ELSE <<>>)
          ELSE Answer("ok",
                 [core.db EXCEPT !.graphs =
                    {IF g.id = graphId
                     THEN [g EXCEPT !.coreJobId = coreId, !.bigJobId = createdBigJobId]
                     ELSE g : g \in @}],
                 IF withBig THEN <<firstId, coreId>> ELSE <<coreId>>)

\* a mutant of SiblingBatch: every Job of the batch gets sortOrder 0
SiblingBatchUnordered(graphId, level, parentId, items) ==
  [index \in 1..Len(items) |-> JobRow(graphId, level, parentId, items[index], 0)]

\* object.jobs.map((job, index) => ({graphId, level, parentId, ..., sortOrder: index}))
\* (TLA+ sequences count from 1, the code's index from 0)
SiblingBatch(graphId, level, parentId, items) ==
  [index \in 1..Len(items) |->
     JobRow(graphId, level, parentId, items[index], index - 1)]

FirstIds(firstId, n) == [i \in 1..n |-> firstId + i - 1]

\* smallJobsGenerateTool.execute; object is the generated object.jobs, each with a
\* formulation, label, phase and cadence
smallJobsGenerateTool(d, graphId, object, firstId, failAt) ==
  LET n == Len(object)
      graph == findGraphById(d.graphs, graphId)
      coreJob == findById(d.jobs, graph.coreJobId)
      existingSmallJobs == findByLevel(d.jobs, graphId, "small")
      r == createMany(d, SiblingBatch(graph.id, "small", coreJob.id, object),
                      firstId, failAt)
  IN IF graph = NoGraph THEN Answer("graph_not_found", d, <<>>)
     ELSE IF coreJob = NoJob THEN Answer("core_not_found", d, <<>>)
     ELSE IF Len(existingSmallJobs) > 0 THEN Answer("exists", d, <<>>)
     ELSE IF r.threw THEN Answer("failed", r.db, <<>>)
     ELSE Answer("ok", r.db, FirstIds(firstId, n))

\* microJobsGenerateTool.execute; object is the generated object.jobs, each with a
\* formulation, label and cadence: the phase is the small Job's
microJobsGenerateTool(d, smallJobId, object, firstId, failAt) ==
  LET n == Len(object)
      smallJob == findById(d.jobs, smallJobId)
      graph == findGraphById(d.graphs, smallJob.graphId)
      existingMicros == findByParentId(d.jobs, smallJobId)
      items == [i \in 1..n |->
                  [formulation |-> object[i].formulation, label |-> object[i].label,
                   phase |-> smallJob.phase, cadence |-> object[i].cadence]]
      r == createMany(d, SiblingBatch(graph.id, "micro", smallJob.id, items),
                      firstId, failAt)
  IN IF smallJob = NoJob THEN Answer("not_found", d, <<>>)
     ELSE IF smallJob.level # "small" THEN Answer("not_small", d, <<>>)
     ELSE IF graph = NoGraph THEN Answer("graph_not_found", d, <<>>)
     ELSE IF Len(existingMicros) > 0 THEN Answer("exists", d, <<>>)
     ELSE IF r.threw THEN Answer("failed", r.db, <<>>)
     ELSE Answer("ok", r.db, FirstIds(firstId, n))

\* microJobsGenerateAllTool, the loop from its i-th small Job on: a small Job that
\* has micro Jobs is skipped; a failed createMany is caught and the loop goes on.
\* The failAt-th small Job's createMany raises (0: none does).
RECURSIVE microJobsGenerateEach(_, _, _, _, _, _, _, _)
microJobsGenerateEach(d, graph, smallJobs, i, object, firstId, failAt, created) ==
  IF i > Len(smallJobs) THEN [db |-> d, created |-> created]
  ELSE LET smallJob == smallJobs[i]
           existingMicros == findByParentId(d.jobs, smallJob.id)
           items == [k \in 1..Len(object) |->
                       [formulation |-> object[k].formulation, label |-> object[k].label,
                        phase |-> smallJob.phase, cadence |-> object[k].cadence]]
           r == createMany(d, SiblingBatch(graph.id, "micro", smallJob.id, items),
                           firstId + Len(created), IF failAt = i THEN 1 ELSE 0)
       IN IF Len(existingMicros) > 0 \/ r.threw
          THEN microJobsGenerateEach(d, graph, smallJobs, i + 1, object, firstId,
                                     failAt, created)
          ELSE microJobsGenerateEach(r.db, graph, smallJobs, i + 1, object, firstId,
                                     failAt,
                                     created \o FirstIds(firstId + Len(created),
                                                         Len(object)))

\* microJobsGenerateAllTool.execute; object is what generateObject returns for each
\* small Job
microJobsGenerateAllTool(d, graphId, object, firstId, failAt) ==
  LET graph == findGraphById(d.graphs, graphId)
      smallJobs == findByLevel(d.jobs, graphId, "small")
      r == microJobsGenerateEach(d, graph, smallJobs, 1, object, firstId, failAt, <<>>)
  IN IF graph = NoGraph THEN Answer("graph_not_found", d, <<>>)
     ELSE IF Len(smallJobs) = 0 THEN Answer("no_small_jobs", d, <<>>)
     ELSE Answer(IF Len(r.created) > 0 THEN "ok" ELSE "none_created", r.db, r.created)

\* a mutant of maxByLevelReached: siblingCount > maxByLevel
maxByLevelExceeded(level, siblingCount) ==
  LET maxByLevel == IF level = "small" THEN MaxSmallSiblings
                    ELSE IF level = "micro" THEN MaxMicroSiblings ELSE NULL
  IN maxByLevel # NULL /\ siblingCount > maxByLevel

\* jobInsertAfterTool: maxByLevel && siblingCount >= maxByLevel
maxByLevelReached(level, siblingCount) ==
  LET maxByLevel == IF level = "small" THEN MaxSmallSiblings
                    ELSE IF level = "micro" THEN MaxMicroSiblings ELSE NULL
  IN maxByLevel # NULL /\ siblingCount >= maxByLevel

\* a mutant of jobInsertAfterTool: the new Job is created under the anchor
\* (parentId: afterJob.id) instead of beside it
jobInsertAfterToolAsChild(d, afterJobId, job, id, ioError) ==
  LET afterJob == findById(d.jobs, afterJobId)
      parentId == afterJob.parentId
      siblingCount == IF parentId # NULL
                      THEN countChildren(d.jobs, parentId)
                      ELSE Len(findRootJobs(d.jobs, afterJob.graphId))
      r == insertAfter(d, afterJobId,
                       JobRow(afterJob.graphId, afterJob.level, afterJob.id,
                              [formulation |-> job.formulation, label |-> job.label,
                               phase |-> afterJob.phase, cadence |-> afterJob.cadence],
                              0),
                       id, ioError)
  IN IF afterJob = NoJob THEN Answer("not_found", d, <<>>)
     ELSE IF maxByLevelReached(afterJob.level, siblingCount)
          THEN Answer("limit", d, <<>>)
     ELSE IF r.threw THEN Answer("threw", r.db, <<>>)
     ELSE Answer("ok", r.db, <<id>>)

\* the content of the inserted Job: phase: job.phase ?? afterJob.phase,
\* cadence: job.cadence ?? afterJob.cadence
NewJobContent(job, afterJob) ==
  [formulation |-> job.formulation, label |-> job.label,
   phase |-> IF job.phase # Undefined THEN job.phase ELSE afterJob.phase,
   cadence |-> IF job.cadence # Undefined THEN job.cadence ELSE afterJob.cadence]

\* a mutant of jobInsertAfterTool: afterJob is not tested for null, and reading
\* afterJob.parentId raises a TypeError instead of the "Job not found" answer
jobInsertAfterToolUnchecked(d, afterJobId, job, id, ioError) ==
  LET afterJob == findById(d.jobs, afterJobId)
      parentId == afterJob.parentId
      siblingCount == IF parentId # NULL
                      THEN countChildren(d.jobs, parentId)
                      ELSE Len(findRootJobs(d.jobs, afterJob.graphId))
      r == insertAfter(d, afterJobId,
                       JobRow(afterJob.graphId, afterJob.level, parentId,
                              NewJobContent(job, afterJob), 0),
                       id, ioError)
  IN IF afterJob = NoJob THEN Answer("threw", d, <<>>)
     ELSE IF maxByLevelReached(afterJob.level, siblingCount)
          THEN Answer("limit", d, <<>>)
     ELSE IF r.threw THEN Answer("threw", r.db, <<>>)
     ELSE Answer("ok", r.db, <<id>>)

\* jobInsertAfterTool.execute
\* a mutant of jobInsertAfterTool: the level maximum is not looked at
jobInsertAfterToolUnlimited(d, afterJobId, job, id, ioError) ==
  LET afterJob == findById(d.jobs, afterJobId)
      parentId == afterJob.parentId
      r == insertAfter(d, afterJobId,
                       JobRow(afterJob.graphId, afterJob.level, parentId,
                              NewJobContent(job, afterJob), 0),
                       id, ioError)
  IN IF afterJob = NoJob THEN Answer("not_found", d, <<>>)
     ELSE IF r.threw THEN Answer("threw", r.db, <<>>)
     ELSE Answer("ok", r.db, <<id>>)

jobInsertAfterTool(d, afterJobId, job, id, ioError) ==
  LET afterJob == findById(d.jobs, afterJobId)
      parentId == afterJob.parentId
      siblingCount == IF parentId # NULL
                      THEN countChildren(d.jobs, parentId)
                      ELSE Len(findRootJobs(d.jobs, afterJob.graphId))
      r == insertAfter(d, afterJobId,
                       JobRow(afterJob.graphId, afterJob.level, parentId,
                              NewJobContent(job, afterJob), 0),
                       id, ioError)
  IN IF afterJob = NoJob THEN Answer("not_found", d, <<>>)
     ELSE IF maxByLevelReached(afterJob.level, siblingCount)
          THEN Answer("limit", d, <<>>)
     ELSE IF r.threw THEN Answer("threw", r.db, <<>>)
     ELSE Answer("ok", r.db, <<id>>)

\* a mutant of missingIds: the completeness check is dropped
missingIdsIgnored(expectedJobs, jobIds) == {}

\* jobReorderTool: Array.from(expectedIds).filter((id) => !jobIds.includes(id))
missingIds(expectedJobs, jobIds) ==
  {id \in Range(Ids(expectedJobs)) : id \notin Range(jobIds)}

\* jobReorderTool: jobIds.filter((id) => !job || job.graphId !== graphId ||
\*   (parentId ? job.parentId !== parentId : job.parentId !== null))
mismatchedParents(J, graphId, parentId, jobIds) ==
  {id \in Range(jobIds) :
     LET job == findById(J, id)
     IN job = NoJob \/ job.graphId # graphId \/ job.parentId # parentId}

\* jobReorderTool.execute
jobReorderTool(d, graphId, parentId, jobIds) ==
  LET graph == findGraphById(d.graphs, graphId)
      parentJob == findById(d.jobs, parentId)
      expectedJobs == IF parentId # NULL
                      THEN findByParentId(d.jobs, parentId)
                      ELSE findRootJobs(d.jobs, graphId)
      r == reorder(d, jobIds)
  IN IF Len(jobIds) < 1 THEN Answer("invalid_arguments", d, <<>>)
     ELSE IF graph = NoGraph THEN Answer("graph_not_found", d, <<>>)
     ELSE IF Cardinality(Range(jobIds)) # Len(jobIds) THEN Answer("not_unique", d, <<>>)
     ELSE IF parentId # NULL /\ (parentJob = NoJob \/ parentJob.graphId # graphId)
          THEN Answer("parent_not_found", d, <<>>)
     ELSE IF missingIds(expectedJobs, jobIds) # {} THEN Answer("missing", d, <<>>)
     ELSE IF mismatchedParents(d.jobs, graphId, parentId, jobIds) # {}
          THEN Answer("mismatch", d, <<>>)
     ELSE Answer("ok", r.db, <<>>)

----------------------------------------------------------------------------
(* Updates, validation and autofix *)

\* a mutant of update: only the formulation of data is written
updateFormulationOnly(d, id, data, ioError) ==
  IF findById(d.jobs, id) = NoJob THEN Ok(d)
  ELSE transaction(d,
         IF ioError THEN Threw(d, "update failed")
         ELSE Ok([d EXCEPT !.jobs =
                    {IF j.id = id /\ "formulation" \in DOMAIN data
                     THEN [j EXCEPT !.formulation = data.formulation]
                     ELSE j : j \in @}]))

\* BaseRepo.update on jobs: the keys of data are written, the others kept
\* (updatedAt is not modelled).  ioError: the UPDATE statement raises.
update(d, id, data, ioError) ==
  IF findById(d.jobs, id) = NoJob THEN Ok(d)
  ELSE transaction(d,
         IF ioError THEN Threw(d, "update failed")
         ELSE Ok([d EXCEPT !.jobs =
                    {IF j.id = id
                     THEN [f \in DOMAIN j |-> IF f \in DOMAIN data THEN data[f] ELSE j[f]]
                     ELSE j : j \in @}]))

\* a mutant of JobPatchSchema: .passthrough(), unknown keys are kept
JobPatchSchemaPassthrough(changes) == changes

\* JobPatchSchema: a z.object, unknown keys are stripped; the keys the model
\* carries are formulation, label, phase and cadence
JobPatchSchema(changes) ==
  [f \in DOMAIN changes \cap {"formulation", "label", "phase", "cadence"} |-> changes[f]]

\* jobUpdateTool.execute, after its parameters are parsed
jobUpdateTool(d, jobId, changes, ioError) ==
  LET parsed == JobPatchSchema(changes)
      existing == findById(d.jobs, jobId)
      r == update(d, jobId, parsed, ioError)
  IN IF DOMAIN parsed = {} THEN Answer("invalid_arguments", d, <<>>)
     ELSE IF existing = NoJob THEN Answer("not_found", d, <<>>)
     ELSE IF r.threw THEN Answer("threw", r.db, <<>>)
     ELSE Answer("ok", r.db, <<>>)

\* POST /api/graphs: the graph row with placeholder job ids; no Job is created
postGraphs(d, graphId, input) ==
  Answer("created",
         [d EXCEPT !.graphs = @ \cup
            {[id |-> graphId, language |-> input.language, coreJobId |-> MissingId,
              bigJobId |-> IF input.bigJob # <<>> THEN MissingId ELSE NULL]}],
         <<>>)

FORMULATION_PREFIXES_RU ==
  << <<"c_ya", " ", "c_h", "c_o", "c_ch", "c_u">>,
     <<"c_ya", " ", "c_h", "c_o", "c_t", "c_e", "c_l", " ", "c_b", "c_y">>,
     <<"c_m", "c_n", "c_e", " ", "c_n", "c_u", "c_zh", "c_n", "c_o">>,
     <<"c_m", "c_n", "c_e", " ", "c_n", "c_e", "c_o", "c_b", "c_h", "c_o", "c_d",
       "c_i", "c_m", "c_o">> >>

FORMULATION_PREFIXES_EN ==
  << <<"i", " ", "w", "a", "n", "t", " ", "t", "o">>,
     <<"i", " ", "n", "e", "e", "d", " ", "t", "o">>,
     <<"i", " ", "w", "o", "u", "l", "d", " ", "l", "i", "k", "e", " ", "t", "o">> >>

\* prefixes.some((prefix) => lower.startsWith(prefix))
startsWithSome(lower, language) ==
  LET prefixes == IF language = "ru" THEN FORMULATION_PREFIXES_RU
                  ELSE FORMULATION_PREFIXES_EN
  IN \E i \in 1..Len(prefixes) : startsWith(lower, prefixes[i])

hasValidFormulationPrefix(formulation, language) ==
  startsWithSome(trim(toLowerCase(formulation)), language)

hasValidLabelFormat(label, language) ==
  /\ ~startsWithSome(trim(toLowerCase(label)), language)
  /\ Len(trim(label)) # 0

\* s has sub as a substring
includes(s, sub) ==
  \E i \in 1..(Len(s) - Len(sub) + 1) : SubSeq(s, i, i + Len(sub) - 1) = sub

hasMultipleActions(text, language) ==
  LET lower == toLowerCase(text)
  IN IF language = "ru"
     THEN \/ includes(lower, <<" ", "c_i", " ">>)
          \/ includes(lower, <<" ", "c_a", " ", "c_t", "c_a", "c_k", "c_zh", "c_e", " ">>)
          \/ includes(lower, <<",", " ", "c_a", " ">>)
     ELSE \/ includes(lower, <<" ", "a", "n", "d", " ">>)
          \/ includes(lower, <<" ", "&", " ">>)

Finding(code, jobId, severity) == [code |-> code, jobId |-> jobId, severity |-> severity]

\* a mutant of validateJob: MULTIPLE_ACTIONS is reported with severity "error"
validateJobStrict(job, language) ==
  (IF ~hasValidFormulationPrefix(job.formulation, language)
   THEN <<Finding("INVALID_FORMULATION", job.id, "error")>> ELSE <<>>)
  \o (IF ~hasValidLabelFormat(job.label, language)
      THEN <<Finding("INVALID_LABEL", job.id, "error")>> ELSE <<>>)
  \o (IF hasMultipleActions(job.formulation, language)
      THEN <<Finding("MULTIPLE_ACTIONS", job.id, "error")>> ELSE <<>>)
  \o (IF job.phase = "unknown"
      THEN <<Finding("UNKNOWN_PHASE", job.id, "warning")>> ELSE <<>>)

\* validateJob
validateJob(job, language) ==
  (IF ~hasValidFormulationPrefix(job.formulation, language)
   THEN <<Finding("INVALID_FORMULATION", job.id, "error")>> ELSE <<>>)
  \o (IF ~hasValidLabelFormat(job.label, language)
      THEN <<Finding("INVALID_LABEL", job.id, "error")>> ELSE <<>>)
  \o (IF hasMultipleActions(job.formulation, language)
      THEN <<Finding("MULTIPLE_ACTIONS", job.id, "warning")>> ELSE <<>>)
  \o (IF job.phase = "unknown"
      THEN <<Finding("UNKNOWN_PHASE", job.id, "warning")>> ELSE <<>>)

\* validateJobCounts
validateJobCounts(J, level, parentId, min, max) ==
  LET filtered == {j \in J : j.level = level /\ j.parentId = parentId}
  IN (IF Cardinality(filtered) < min
      THEN <<Finding(IF level = "small" THEN "TOO_FEW_SMALL_JOBS"
                     ELSE "TOO_FEW_MICRO_JOBS", NULL, "warning")>>
      ELSE <<>>)
     \o (IF Cardinality(filtered) > max
         THEN <<Finding(IF level = "small" THEN "TOO_MANY_SMALL_JOBS"
                        ELSE "TOO_MANY_MICRO_JOBS", NULL, "warning")>>
         ELSE <<>>)

\* JobRepo.findByGraphId: the graph's Jobs, ORDER BY sort_order ASC
findByGraphId(J, graphId) == OrderBySortOrder({j \in J : j.graphId = graphId})

\* validateGraph, "Validate each job": the findings of the Jobs, in order
RECURSIVE jobFindings(_, _, _)
jobFindings(jobSeq, language, i) ==
  IF i > Len(jobSeq) THEN <<>>
  ELSE validateJob(jobSeq[i], language) \o jobFindings(jobSeq, language, i + 1)

\* validateGraph, "Validate micro job counts per small job (3-6)"
RECURSIVE microCountFindings(_, _, _)
microCountFindings(J, smallJobs, i) ==
  IF i > Len(smallJobs) THEN <<>>
  ELSE LET microErrors == validateJobCounts(J, "micro", smallJobs[i].id,
                                            ValidMinMicroJobs, ValidMaxMicroJobs)
       IN [k \in 1..Len(microErrors) |->
             [microErrors[k] EXCEPT !.jobId = smallJobs[i].id]]
          \o microCountFindings(J, smallJobs, i + 1)

\* validateGraph
validateGraph(d, graphId, language) ==
  LET jobSeq == findByGraphId(d.jobs, graphId)
      found == jobFindings(jobSeq, language, 1)
      errors == SelectSeq(found, LAMBDA finding : finding.severity = "error")
      smallJobErrors == validateJobCounts(Range(jobSeq), "small", NULL,
                                          ValidMinSmallJobs, ValidMaxSmallJobs)
      smallJobs == SelectSeq(jobSeq, LAMBDA j : j.level = "small")
      warnings == SelectSeq(found, LAMBDA finding : finding.severity # "error")
                    \o smallJobErrors
                    \o microCountFindings(Range(jobSeq), smallJobs, 1)
  IN [valid |-> Len(errors) = 0, errors |-> errors, warnings |-> warnings]

Change(jobId, field, oldValue, newValue) ==
  [jobId |-> jobId, field |-> field, oldValue |-> oldValue, newValue |-> newValue]

\* normalizeGraph, the loop from its i-th Job on: the changes so far, the tables
\* so far, and the number of jobRepo.update calls so far; the failAt-th raises
RECURSIVE normalizeEach(_, _, _, _, _, _, _)
normalizeEach(d, jobSeq, language, i, changes, updates, failAt) ==
  IF i > Len(jobSeq) THEN [threw |-> FALSE, changes |-> changes, db |-> d]
  ELSE LET job == jobSeq[i]
           normalizedFormulation == normalizeFormulation(job.formulation, language)
           normalizedLabel == normalizeLabel(job.label, language)
           formulationChange ==
             IF normalizedFormulation # job.formulation
             THEN <<Change(job.id, "formulation", job.formulation,
                           normalizedFormulation)>>
             ELSE <<>>
           labelChange ==
             IF normalizedLabel # job.label
             THEN <<Change(job.id, "label", job.label, normalizedLabel)>>
             ELSE <<>>
           found == formulationChange \o labelChange
           data == [f \in {found[k].field : k \in 1..Len(found)} |->
                      IF f = "formulation" THEN normalizedFormulation
                      ELSE normalizedLabel]
           r == update(d, job.id, data, failAt = updates + 1)
       IN IF found = <<>>
          THEN normalizeEach(d, jobSeq, language, i + 1, changes, updates, failAt)
          ELSE IF r.threw
               THEN [threw |-> TRUE, changes |-> changes \o found, db |-> r.db]
               ELSE normalizeEach(r.db, jobSeq, language, i + 1, changes \o found,
                                  updates + 1, failAt)

\* normalizeGraph
normalizeGraph(d, graphId, language, failAt) ==
  normalizeEach(d, findByGraphId(d.jobs, graphId), language, 1, <<>>, 0, failAt)

\* autofixGraph
autofixGraph(d, graphId, language, failAt) ==
  normalizeGraph(d, graphId, language, failAt)

\* a validation report with no finding and no change
NoReport == [valid |-> TRUE, errors |-> <<>>, warnings |-> <<>>, changes |-> <<>>]

\* a mutant of postValidate: autofix runs whether it was asked for or not
postValidateAlwaysFix(d, graphId, autofix, failAt) ==
  LET graph == findGraphById(d.graphs, graphId)
      autofixResult == autofixGraph(d, graphId, graph.language, failAt)
      validation == validateGraph(autofixResult.db, graphId, graph.language)
  IN IF graph = NoGraph
     THEN [result |-> "NOT_FOUND", db |-> d, report |-> NoReport]
     ELSE IF autofixResult.threw
     THEN [result |-> "VALIDATION_FAILED", db |-> autofixResult.db, report |-> NoReport]
     ELSE [result |-> "ok", db |-> autofixResult.db,
           report |-> [valid |-> validation.valid, errors |-> validation.errors,
                       warnings |-> validation.warnings,
                       changes |-> IF autofix THEN autofixResult.changes ELSE <<>>]]

\* POST /api/graphs/:id/validate: autofix when asked for, then validate.
\* Answers [result, db, report].
postValidate(d, graphId, autofix, failAt) ==
  LET graph == findGraphById(d.graphs, graphId)
      autofixResult == IF autofix THEN autofixGraph(d, graphId, graph.language, failAt)
                       ELSE [threw |-> FALSE, changes |-> <<>>, db |-> d]
      validation == validateGraph(autofixResult.db, graphId, graph.language)
  IN IF graph = NoGraph
     THEN [result |-> "NOT_FOUND", db |-> d, report |-> NoReport]
     ELSE IF autofixResult.threw
     THEN [result |-> "VALIDATION_FAILED", db |-> autofixResult.db, report |-> NoReport]
     ELSE [result |-> "ok", db |-> autofixResult.db,
           report |-> [valid |-> validation.valid, errors |-> validation.errors,
                       warnings |-> validation.warnings,
                       changes |-> autofixResult.changes]]

\* solutionRepo.countByJobId
countByJobId(S, jobId) == Cardinality({x \in S : x.jobId = jobId})


\* generateUIv1View: the small Jobs of each phase in sortOrder, each with its
\* micro Jobs in sortOrder and its number of Solutions, and the counts
generateUIv1View(d, graphId) ==
  LET graph == findGraphById(d.graphs, graphId)
      allJobs == findByGraphId(d.jobs, graphId)
      smallJobs == {j \in Range(allJobs) : j.level = "small"}
      microJobs == {j \in Range(allJobs) : j.level = "micro"}
      microsByParent(id) == {m \in microJobs : m.parentId # NULL /\ m.parentId = id}
      sortedMicros(id) == OrderBySortOrder(microsByParent(id))
      transformJob(job) ==
        [id |-> job.id, phase |-> job.phase, sortOrder |-> job.sortOrder,
         microJobs |-> [k \in 1..Len(sortedMicros(job.id)) |->
                          [id |-> sortedMicros(job.id)[k].id,
                           sortOrder |-> sortedMicros(job.id)[k].sortOrder]],
         solutionCount |-> countByJobId(d.solutions, job.id)]
      group(phase) ==
        LET sorted == OrderBySortOrder({j \in smallJobs : j.phase = phase})
        IN [k \in 1..Len(sorted) |-> transformJob(sorted[k])]
  IN IF graph = NoGraph THEN [graph |-> NULL]
     ELSE [graph |-> graph.id,
           jobs |-> [before |-> group("before"), during |-> group("during"),
                     after |-> group("after")],
           stats |-> [totalJobs |-> Len(allJobs),
                      smallJobCount |-> Cardinality(smallJobs),
                      microJobCount |-> Cardinality(microJobs),
                      solutionCount |->
                        Cardinality({x \in d.solutions :
                                       \E j \in Range(allJobs) : x.jobId = j.id})]]

----------------------------------------------------------------------------
(* The callers' inputs *)

Siblings(J, j) == {k \in J : k.graphId = j.graphId /\ k.parentId = j.parentId}

\* the place (from 1) of j among its siblings in sortOrder
Position(J, j) ==
  Cardinality({k \in Siblings(J, j) :
                 \/ k.sortOrder < j.sortOrder
                 \/ (k.sortOrder = j.sortOrder /\ k.id < j.id)}) + 1

\* the Jobs a caller addresses: the first, the second and the last of each
\* sibling list
Addressed(J) ==
  {j.id : j \in {k \in J : \/ Position(J, k) \in {1, 2}
                            \/ Position(J, k) = Cardinality(Siblings(J, k))}}

JobIdInputs == Addressed(jobs) \cup {MissingId}

GraphIdInputs == {g.id : g \in graphs} \cup {MissingId}

\* the id lists a caller passes to job_reorder for the sibling list seq:
\* rearrangements of it, and lists that omit, repeat or add an id
ReorderInputs(seq, others) ==
  IF Len(seq) = 0 THEN {<<MissingId>>}
  ELSE {seq, [i \in 1..Len(seq) |-> seq[Len(seq) + 1 - i]], Tail(seq) \o <<Head(seq)>>}
       \cup {Tail(seq), seq \o <<Head(seq)>>}
       \cup {Append(seq, x) : x \in others \ Range(seq)}

----------------------------------------------------------------------------
(* State *)

\* the texts the callers and the language model supply
EnFormulation == CANONICAL_PREFIX_EN \o <<" ", "x">>
EnLabel == <<"X">>

\* graph_create parameters: with and without a big Job
GraphInputs ==
  {[language |-> "en", coreJob |-> EnFormulation, bigJob |-> b] :
     b \in {<<>>, EnFormulation}}

\* generateObject for small Jobs: n items
SmallObject(n) ==
  [i \in 1..n |-> [formulation |-> EnFormulation, label |-> EnLabel,
                   phase |-> "before", cadence |-> "once"]]

\* generateObject for micro Jobs: n items
MicroObject(n) ==
  [i \in 1..n |-> [formulation |-> EnFormulation, label |-> EnLabel,
                   cadence |-> "once"]]

\* the last call: the operation, its answer, the id it addressed, the ids it was
\* given or created, and the tables before it
Call(op, result, graphId, target, ids) ==
  [op |-> op, result |-> result, graphId |-> graphId, target |-> target, ids |-> ids,
   report |-> NoReport,
   pre |-> [jobs |-> jobs, solutions |-> solutions, edges |-> edges]]

Commit(d) ==
  /\ calls' = calls + 1
  /\ UNCHANGED <<norm, pending, otherVars>>
  /\ graphs' = d.graphs
  /\ jobs' = d.jobs
  /\ solutions' = d.solutions
  /\ edges' = d.edges

\* no text function has been applied
NoResponse == [status |-> 0]

\* everything outside the hierarchy's database and the text functions is idle
NoProcess == [pc |-> "stopped", starts |-> 0, files |-> <<>>, applied |-> {}, index |-> 0,
              skipped |-> 0]

\* nothing stored in the generic entity store and nothing called on it; the
\* server with its default limits, no bucket and no request served; no migration
\* file, a database file without tables, no process started
InitOthersIdle ==
  /\ clock = 1
  /\ rows = {}
  /\ returned = [op |-> "none"]
  /\ env = [RATE_LIMIT_MAX |-> 60, RATE_LIMIT_WINDOW_MS |-> 60000]
  /\ rateBuckets = <<>>
  /\ passed = <<>>
  /\ response = NoResponse
  /\ directory = {}
  /\ database = [tables |-> {}, schema_migrations |-> {}, statements |-> {},
                 log |-> <<>>, rolledBack |-> {}]
  /\ process = NoProcess

NoText == [fn |-> "none", language |-> "en", text |-> <<>>, once |-> <<>>, twice |-> <<>>]

\* the empty database
InitDb ==
  /\ graphs = {}
  /\ jobs = {}
  /\ solutions = {}
  /\ edges = {}
  /\ nextId = 1
  /\ calls = 0
  /\ pending = {}
  /\ last = [op |-> "init", result |-> "ok", graphId |-> NULL, target |-> NULL,
             ids |-> <<>>, report |-> NoReport,
             pre |-> [jobs |-> {}, solutions |-> {}, edges |-> {}]]

Init ==
  /\ InitDb
  /\ norm = NoText
  /\ InitOthersIdle

GraphCreate ==
  /\ calls < MaxCalls
  /\ \E input \in GraphInputs, failAt \in 0..2 :
       /\ Cardinality(graphs) < MaxGraphs
       /\ nextId + 1 <= MaxId
       /\ failAt = 2 => input.bigJob # <<>>
       /\ LET graphId == Cardinality(graphs) + 1
              a == graphCreateTool(db, graphId, nextId, input, failAt)
          IN /\ Commit(a.db)
             /\ nextId' = nextId + Len(a.created)
             /\ last' = Call("graph_create", a.result, graphId, NULL, a.created)

SmallJobsGenerate ==
  /\ calls < MaxCalls
  /\ \E graphId \in GraphIdInputs, n \in {MinSmallJobs, MaxSmallJobs} :
      \E failAt \in {0, n} :
       /\ nextId + n - 1 <= MaxId
       /\ LET a == smallJobsGenerateTool(db, graphId, SmallObject(n), nextId, failAt)
          IN /\ Commit(a.db)
             /\ nextId' = nextId + Len(a.created)
             /\ last' = Call("small_jobs_generate", a.result, graphId, NULL, a.created)

MicroJobsGenerate ==
  /\ calls < MaxCalls
  /\ \E smallJobId \in JobIdInputs, n \in {MinMicroJobs, MaxMicroJobs} :
      \E failAt \in {0, n} :
       /\ nextId + n - 1 <= MaxId
       /\ LET a == microJobsGenerateTool(db, smallJobId, MicroObject(n), nextId, failAt)
          IN /\ Commit(a.db)
             /\ nextId' = nextId + Len(a.created)
             /\ last' = Call("micro_jobs_generate", a.result, NULL, smallJobId, a.created)

JobInsertAfter ==
  /\ calls < MaxCalls
  /\ \E afterJobId \in JobIdInputs, ioError \in BOOLEAN,
        \* the payload: a phase given, the cadence left out
        job \in {[formulation |-> EnFormulation, label |-> EnLabel, phase |-> "after",
                  cadence |-> Undefined]} :
       /\ nextId <= MaxId
       /\ LET a == jobInsertAfterTool(db, afterJobId, job, nextId, ioError)
          IN /\ Commit(a.db)
             /\ nextId' = nextId + Len(a.created)
             /\ last' = Call("job_insert_after", a.result, NULL, afterJobId, a.created)

\* the (graphId, parentId) pairs a caller passes to job_reorder: the root list and
\* the Jobs with children of each graph, and pairs that name no graph, no Job, or a
\* parent of another graph
JobReorder ==
  /\ calls < MaxCalls
  /\ \E t \in {<<g.id, NULL>> : g \in graphs}
              \cup {<<j.graphId, j.id>> :
                      j \in {k \in jobs : k.id \in Addressed(jobs)
                                           /\ countChildren(jobs, k.id) > 0}}
              \cup {<<g.id, j.id>> : g \in graphs, j \in {k \in jobs : k.level = "core"}}
              \cup {<<MissingId, NULL>>}
              \cup {<<g.id, MissingId>> : g \in graphs} :
       \E jobIds \in ReorderInputs(
              Ids(IF t[2] # NULL THEN findByParentId(jobs, t[2])
                  ELSE findRootJobs(jobs, t[1])),
              \* foreign ids mixed in: an id of no Job, and the big and core Jobs
              {MissingId} \cup {j.id : j \in {k \in jobs : k.level \in {"big", "core"}}}) :
         LET a == jobReorderTool(db, t[1], t[2], jobIds)
         IN /\ Commit(a.db)
            /\ UNCHANGED nextId
            /\ last' = Call("job_reorder", a.result, t[1], t[2], jobIds)

\* jobRepo.delete(id)
JobDelete ==
  /\ calls < MaxCalls
  /\ \E id \in JobIdInputs :
       LET r == deleteJob(db, id)
       IN /\ Commit(r.db)
          /\ UNCHANGED nextId
          /\ last' = Call("job_delete", IF r.db.jobs # jobs THEN "deleted" ELSE "not_found",
                           NULL, id, <<>>)

\* solutionRepo.create({jobId, ...})
SolutionCreate ==
  /\ calls < MaxCalls
  /\ \E jobId \in Addressed(jobs) :
       /\ Cardinality(solutions) < MaxSolutions
       /\ LET r == createSolution(db, Cardinality(solutions) + 1, jobId)
          IN /\ Commit(r.db)
             /\ UNCHANGED nextId
             /\ last' = Call("solution_create", "ok", NULL, jobId, <<>>)

\* edgeRepo.create({graphId, fromId, toId, ...}) between two Jobs of a graph
EdgeCreate ==
  /\ calls < MaxCalls
  /\ \E fromId \in Addressed(jobs), toId \in Addressed(jobs) :
       /\ Cardinality(edges) < MaxEdges
       /\ fromId # toId
       /\ findById(jobs, fromId).graphId = findById(jobs, toId).graphId
       /\ LET r == createEdge(db, Cardinality(edges) + 1,
                              findById(jobs, fromId).graphId, fromId, toId)
          IN /\ Commit(r.db)
             /\ UNCHANGED nextId
             /\ last' = Call("edge_create", "ok", NULL, fromId, <<toId>>)

\* POST /api/graphs
GraphPost ==
  /\ calls < MaxCalls
  /\ \E input \in GraphInputs :
       /\ Cardinality(graphs) < MaxGraphs
       /\ LET graphId == Cardinality(graphs) + 1
              a == postGraphs(db, graphId, input)
          IN /\ Commit(a.db)
             /\ UNCHANGED nextId
             /\ last' = Call("post_graphs", a.result, graphId, NULL, <<>>)

\* job_update
JobUpdate ==
  /\ calls < MaxCalls
  /\ \E \* the first of each sibling list, and an id of no Job
        jobId \in {j.id : j \in {k \in jobs : Position(jobs, k) = 1}} \cup {MissingId},
        \* a phase; a label, with keys the schema does not have; a bare lead-in
        changes \in {[phase |-> "unknown"],
                     [label |-> <<"x", ".", ".">>, level |-> "micro", sortOrder |-> 7],
                     [label |-> <<"I", " ", "w", "a", "n", "t", " ", "t", "o">>]} :
       LET a == jobUpdateTool(db, jobId, changes, FALSE)
       IN /\ Commit(a.db)
          /\ UNCHANGED nextId
          /\ last' = Call("job_update", a.result, NULL, jobId, <<>>)

\* POST /api/graphs/:id/validate, with and without ?autofix=1
GraphValidate ==
  /\ calls < MaxCalls
  /\ \E graphId \in GraphIdInputs, autofix \in BOOLEAN, failAt \in 0..1 :
       /\ failAt = 1 => autofix
       /\ LET a == postValidate(db, graphId, autofix, failAt)
          IN /\ Commit(a.db)
             /\ UNCHANGED nextId
             /\ last' = [Call(IF autofix THEN "autofix" ELSE "validate", a.result,
                              graphId, NULL, <<>>) EXCEPT !.report = a.report]

Next ==
  \/ GraphCreate
  \/ SmallJobsGenerate
  \/ MicroJobsGenerate
  \/ JobInsertAfter
  \/ JobReorder
  \/ JobDelete
  \/ SolutionCreate
  \/ EdgeCreate

Spec == Init /\ [][Next]_vars

----------------------------------------------------------------------------
(* The normalization functions on their own: a text and a language profile *)
(* are drawn, and a function is applied to the text and to its own result. *)

\* the lead-ins a text starts with: none, the canonical prefix as it is and in
\* lower case, and the lead-ins the patterns rewrite (the first one capitalized too)
\* the texts: blanks, a lead-in, blanks, and what follows the lead-in (nothing, a
\* word, a sentence with periods, or a second lead-in with a word), blanks
TextInputs(language) ==
  LET canonical == IF language = "ru" THEN CANONICAL_PREFIX_RU ELSE CANONICAL_PREFIX_EN
      patterns == IF language = "ru" THEN FORMULATION_NORMALIZE_RU
                  ELSE FORMULATION_NORMALIZE_EN
      LeadIns == {<<>>, canonical, toLowerCase(canonical), capitalize(patterns[1])}
                   \cup Range(patterns)
      Bodies == {<<>>, <<"x">>, <<"X", ".", ".">>}
                  \cup {l \o <<" ", "x">> : l \in LeadIns \ {<<>>}}
  IN {w1 \o l \o w2 \o b \o w3 :
        w1 \in {<<>>, <<" ">>}, l \in LeadIns,
        w2 \in {<<>>, <<" ">>, <<" ", " ">>},
        b \in Bodies, w3 \in {<<>>, <<" ">>}}

InitNormalize ==
  /\ InitDb
  /\ InitOthersIdle
  /\ \E language \in {"ru", "en"} : \E text \in TextInputs(language) :
       norm = [fn |-> "input", language |-> language, text |-> text,
               once |-> <<>>, twice |-> <<>>]

NormalizeFormulation ==
  /\ norm.fn = "input"
  /\ LET once == normalizeFormulation(norm.text, norm.language)
     IN norm' = [norm EXCEPT !.fn = "normalizeFormulation", !.once = once,
                             !.twice = normalizeFormulation(once, norm.language)]
  /\ UNCHANGED <<dbVars, otherVars>>

NormalizeLabel ==
  /\ norm.fn = "input"
  /\ LET once == normalizeLabel(norm.text, norm.language)
     IN norm' = [norm EXCEPT !.fn = "normalizeLabel", !.once = once,
                             !.twice = normalizeLabel(once, norm.language)]
  /\ UNCHANGED <<dbVars, otherVars>>

NextNormalize ==
  \/ NormalizeFormulation
  \/ NormalizeLabel

SpecNormalize == InitNormalize /\ [][NextNormalize]_vars

----------------------------------------------------------------------------
(* Editing a graph.  The calls start from a graph the tools have built: the *)
(* graph with its big and core Job, then its small Jobs, then the micro     *)
(* Jobs of its first small Job, with texts as the language model returns    *)
(* them.                                                                    *)

\* number of calls made on a built graph
MaxEdits == 2

\* texts generateObject may return instead of the ones asked for: an empty
\* formulation with a label that ends in periods; another lead-in and two actions
\* with a label that has a first-person prefix
GeneratedTexts ==
  << [formulation |-> <<>>, label |-> <<"X", ".", ".">>],
     [formulation |-> FORMULATION_NORMALIZE_EN[1]
                        \o <<" ", "x", " ", "a", "n", "d", " ", "y">>,
      label |-> LabelPrefixes("en")[1] \o <<"x">>] >>

\* the generated object with the texts of its first Job replaced
WithFirst(object, text) ==
  [object EXCEPT ![1] = [@ EXCEPT !.formulation = text.formulation,
                                  !.label = text.label]]

EmptyDb == Db({}, {}, {}, {})

\* the tables after graph_create (not full) or after graph_create,
\* small_jobs_generate and micro_jobs_generate for the first small Job (full), with
\* the texts asked for or with GeneratedTexts (odd), and the next id to hand out
BuiltGraph(full, odd) ==
  LET created == graphCreateTool(EmptyDb, 1, 1,
                                 [language |-> "en", coreJob |-> EnFormulation,
                                  bigJob |-> EnFormulation], 0)
      smallObject == IF odd THEN WithFirst(SmallObject(MinSmallJobs), GeneratedTexts[1])
                     ELSE SmallObject(MinSmallJobs)
      microObject == IF odd THEN WithFirst(MicroObject(MinMicroJobs), GeneratedTexts[2])
                     ELSE MicroObject(MinMicroJobs)
      smalls == smallJobsGenerateTool(created.db, 1, smallObject, 3, 0)
      micros == microJobsGenerateTool(smalls.db, smalls.created[1], microObject,
                                      3 + MinSmallJobs, 0)
  IN IF full THEN [db |-> micros.db, nextId |-> 3 + MinSmallJobs + MinMicroJobs]
     ELSE [db |-> created.db, nextId |-> 3]

InitEdit ==
  \E full \in BOOLEAN, odd \in BOOLEAN :
    /\ odd => full
    /\ graphs = BuiltGraph(full, odd).db.graphs
    /\ jobs = BuiltGraph(full, odd).db.jobs
    /\ solutions = {}
    /\ edges = {}
    /\ nextId = BuiltGraph(full, odd).nextId
    /\ calls = 0
    /\ pending = {}
    /\ last = [op |-> "init", result |-> "ok", graphId |-> NULL, target |-> NULL,
               ids |-> <<>>, report |-> NoReport,
               pre |-> [jobs |-> jobs, solutions |-> {}, edges |-> {}]]
    /\ norm = NoText
    /\ InitOthersIdle

NextEdit ==
  \/ calls < MaxEdits /\ GraphCreate
  \/ calls < MaxEdits /\ GraphPost
  \/ calls < MaxEdits /\ SmallJobsGenerate
  \/ calls < MaxEdits /\ MicroJobsGenerate
  \/ calls < MaxEdits /\ JobInsertAfter
  \/ calls < MaxEdits /\ JobReorder
  \/ calls < MaxEdits /\ JobUpdate
  \/ calls < MaxEdits /\ GraphValidate
  \/ calls < MaxEdits /\ JobDelete

SpecEdit == InitEdit /\ [][NextEdit]_vars

----------------------------------------------------------------------------
(* Validating a whole graph.  The calls start from a graph with its small   *)
(* Jobs; micro_jobs_generate_all fills it and the validate route reads it.  *)

\* micro_jobs_generate_all
MicroJobsGenerateAll ==
  /\ calls < MaxCalls
  /\ \E graphId \in GraphIdInputs,
        n \in {MinMicroJobs, DefaultCountPerJob, MaxMicroJobs}, failAt \in 0..1 :
       LET a == microJobsGenerateAllTool(db, graphId, MicroObject(n), nextId, failAt)
       IN /\ Commit(a.db)
          /\ nextId' = nextId + Len(a.created)
          /\ last' = Call("micro_jobs_generate_all", a.result, graphId, NULL, a.created)

\* the tables after graph_create and small_jobs_generate with n small Jobs
BuiltSmallJobs(input, n) ==
  LET created == graphCreateTool(EmptyDb, 1, 1, input, 0)
  IN smallJobsGenerateTool(created.db, 1, SmallObject(n), Len(created.created) + 1, 0)

InitValidate ==
  \E input \in GraphInputs, n \in {MinSmallJobs, DefaultSmallCount, MaxSmallJobs} :
    /\ graphs = BuiltSmallJobs(input, n).db.graphs
    /\ jobs = BuiltSmallJobs(input, n).db.jobs
    /\ solutions = {}
    /\ edges = {}
    /\ nextId = Cardinality(jobs) + 1
    /\ calls = 0
    /\ pending = {}
    /\ last = [op |-> "init", result |-> "ok", graphId |-> NULL, target |-> NULL,
               ids |-> <<>>, report |-> NoReport,
               pre |-> [jobs |-> jobs, solutions |-> {}, edges |-> {}]]
    /\ norm = NoText
    /\ InitOthersIdle

NextValidate ==
  \/ calls < MaxEdits /\ MicroJobsGenerateAll
  \/ calls < MaxEdits /\ GraphValidate

SpecValidate == InitValidate /\ [][NextValidate]_vars

----------------------------------------------------------------------------
(* Overlapping generation.  A generating tool runs its checks, waits for    *)
(* the language model (await generateObject) and then writes its batch;     *)
(* while it waits, other calls run.  A waiting call keeps what it read      *)
(* before the await: the graph, the level and the parents still to fill.    *)

MaxPending == 2

\* for (const smallJob of smallJobs): the small Jobs from the next one without
\* micro Jobs onwards
skipExisting(d, todo) ==
  LET F[i \in 1..Len(todo) + 1] ==
        IF i > Len(todo) THEN <<>>
        ELSE IF Len(findByParentId(d.jobs, todo[i].parentId)) > 0 THEN F[i + 1]
        ELSE SubSeq(todo, i, Len(todo))
  IN F[1]

Waiting(op, graphId, level, todo) ==
  [call |-> calls + 1, op |-> op, graphId |-> graphId, level |-> level, todo |-> todo]

\* a step of a tool: the tables it leaves, the answer it gives or the wait it enters
Step(d, op, result, graphId, target, ids, waiting) ==
  /\ calls' = calls + 1
  /\ graphs' = d.graphs
  /\ jobs' = d.jobs
  /\ solutions' = d.solutions
  /\ edges' = d.edges
  /\ nextId' = nextId + Len(ids)
  /\ last' = Call(op, result, graphId, target, ids)
  /\ pending' = waiting
  /\ UNCHANGED <<norm, otherVars>>

\* small_jobs_generate up to its await
SmallJobsGenerateSuspend ==
  /\ Cardinality(pending) < MaxPending
  /\ \E graphId \in GraphIdInputs :
       LET graph == findGraphById(graphs, graphId)
           coreJob == findById(jobs, graph.coreJobId)
           existingSmallJobs == findByLevel(jobs, graphId, "small")
           result == IF graph = NoGraph THEN "graph_not_found"
                     ELSE IF coreJob = NoJob THEN "core_not_found"
                     ELSE IF Len(existingSmallJobs) > 0 THEN "exists"
                     ELSE "waiting"
       IN Step(db, "small_jobs_generate", result, graphId, NULL, <<>>,
               IF result = "waiting"
               THEN pending \cup {Waiting("small_jobs_generate", graph.id, "small",
                                          <<[parentId |-> coreJob.id,
                                             phase |-> Undefined]>>)}
               ELSE pending)

\* micro_jobs_generate up to its await
MicroJobsGenerateSuspend ==
  /\ Cardinality(pending) < MaxPending
  /\ \E smallJobId \in JobIdInputs :
       LET smallJob == findById(jobs, smallJobId)
           graph == findGraphById(graphs, smallJob.graphId)
           existingMicros == findByParentId(jobs, smallJobId)
           result == IF smallJob = NoJob THEN "not_found"
                     ELSE IF smallJob.level # "small" THEN "not_small"
                     ELSE IF graph = NoGraph THEN "graph_not_found"
                     ELSE IF Len(existingMicros) > 0 THEN "exists"
                     ELSE "waiting"
       IN Step(db, "micro_jobs_generate", result, NULL, smallJobId, <<>>,
               IF result = "waiting"
               THEN pending \cup {Waiting("micro_jobs_generate", graph.id, "micro",
                                          <<[parentId |-> smallJob.id,
                                             phase |-> smallJob.phase]>>)}
               ELSE pending)

\* micro_jobs_generate_all up to its first await
MicroJobsGenerateAllSuspend ==
  /\ Cardinality(pending) < MaxPending
  /\ \E graphId \in GraphIdInputs :
       LET graph == findGraphById(graphs, graphId)
           smallJobs == findByLevel(jobs, graphId, "small")
           todo == skipExisting(db, [i \in 1..Len(smallJobs) |->
                                       [parentId |-> smallJobs[i].id,
                                        phase |-> smallJobs[i].phase]])
           result == IF graph = NoGraph THEN "graph_not_found"
                     ELSE IF Len(smallJobs) = 0 THEN "no_small_jobs"
                     ELSE IF todo = <<>> THEN "none_created"
                     ELSE "waiting"
       IN Step(db, "micro_jobs_generate_all", result, graphId, NULL, <<>>,
               IF result = "waiting"
               THEN pending \cup {Waiting("micro_jobs_generate_all", graph.id, "micro",
                                          todo)}
               ELSE pending)

\* a waiting call gets the language model's answer (or its failure) and goes on:
\* createMany under the parent it had read, then, in micro_jobs_generate_all,
\* the loop up to its next await
GenerateResume ==
  \E p \in pending :
    \E n \in IF p.level = "small" THEN {MinSmallJobs, MaxSmallJobs}
             ELSE {MinMicroJobs, MaxMicroJobs} :
      \E failAt \in {0, n} :
        LET parent == Head(p.todo)
            object == IF p.level = "small" THEN SmallObject(n)
                      ELSE [i \in 1..n |->
                              [formulation |-> MicroObject(n)[i].formulation,
                               label |-> MicroObject(n)[i].label,
                               phase |-> parent.phase,
                               cadence |-> MicroObject(n)[i].cadence]]
            r == createMany(db, SiblingBatch(p.graphId, p.level, parent.parentId, object),
                            nextId, failAt)
            todo == skipExisting(r.db, Tail(p.todo))
        IN Step(r.db, p.op, IF r.threw THEN "failed" ELSE "ok", p.graphId,
                parent.parentId, IF r.threw THEN <<>> ELSE FirstIds(nextId, n),
                IF todo = <<>> THEN pending \ {p}
                ELSE (pending \ {p}) \cup {[p EXCEPT !.todo = todo]})

InitOverlap ==
  \E full \in BOOLEAN :
    /\ graphs = BuiltGraph(full, FALSE).db.graphs
    /\ jobs = BuiltGraph(full, FALSE).db.jobs
    /\ solutions = {}
    /\ edges = {}
    /\ nextId = BuiltGraph(full, FALSE).nextId
    /\ calls = 0
    /\ pending = {}
    /\ last = [op |-> "init", result |-> "ok", graphId |-> NULL, target |-> NULL,
               ids |-> <<>>, report |-> NoReport,
               pre |-> [jobs |-> jobs, solutions |-> {}, edges |-> {}]]
    /\ norm = NoText
    /\ InitOthersIdle

NextOverlap ==
  \/ calls < MaxCalls /\ SmallJobsGenerateSuspend
  \/ calls < MaxCalls /\ MicroJobsGenerateSuspend
  \/ calls < MaxCalls /\ MicroJobsGenerateAllSuspend
  \/ calls < MaxCalls /\ GenerateResume

SpecOverlap == InitOverlap /\ [][NextOverlap]_vars

----------------------------------------------------------------------------
(* The entity store on its own: BaseRepo over one table.  A row has an id,  *)
(* two data columns and its two timestamps; Date.now() reads the clock.     *)

MaxRows == 2
MaxTicks == 3
ClockStep == 500

StoreIds == {"r1", "r2", "r3"}
NoRow == [id |-> "null"]

findRowById(table, id) ==
  IF \E r \in table : r.id = id THEN CHOOSE r \in table : r.id = id ELSE NoRow

\* buildSetClause: a key whose value is undefined gets no assignment
buildSetClause(data) ==
  LET keys == {k \in DOMAIN data : data[k] # Undefined}
  IN [k \in keys |-> data[k]]

\* BaseRepo.create
baseCreate(table, data, id, now) ==
  table \cup {[id |-> id, name |-> data.name, note |-> data.note,
               createdAt |-> now, updatedAt |-> now]}

\* BaseRepo.update: null for a missing id; otherwise one UPDATE of the columns
\* of the patch and of updated_at, then the row read back by the id that was
\* passed in, both in one transaction.  A second row with the new primary key
\* makes the UPDATE raise, and the transaction rolls back.
baseUpdate(table, id, data, now) ==
  LET existing == findRowById(table, id)
      sets == buildSetClause(data)
      \* UPDATE ... SET ... WHERE id = ?: every assigned column overwritten
      written == [k \in DOMAIN existing |->
                    IF k = "updatedAt" THEN now
                    ELSE IF k \in DOMAIN sets THEN sets[k] ELSE existing[k]]
      after == (table \ {existing}) \cup {written}
  IN IF existing = NoRow
     THEN [threw |-> FALSE, value |-> NoRow, table |-> table]
     ELSE IF \E r \in table \ {existing} : r.id = written.id
     THEN [threw |-> TRUE, value |-> NoRow, table |-> table]
     ELSE [threw |-> FALSE, value |-> findRowById(after, id), table |-> after]

InitStore ==
  /\ InitDb
  /\ norm = NoText
  /\ clock = 1
  /\ rows = {}
  /\ returned = [op |-> "none"]
  /\ env = [RATE_LIMIT_MAX |-> 60, RATE_LIMIT_WINDOW_MS |-> 60000]
  /\ rateBuckets = <<>>
  /\ passed = <<>>
  /\ response = NoResponse
  /\ directory = {}
  /\ database = [tables |-> {}, schema_migrations |-> {}, statements |-> {},
                 log |-> <<>>, rolledBack |-> {}]
  /\ process = NoProcess

\* Date.now() moves on between two calls
Tick ==
  /\ clock < 1 + ClockStep * MaxTicks
  /\ clock' = clock + ClockStep
  /\ UNCHANGED <<dbVars, norm, rows, returned, env, rateBuckets, passed, response, directory, database, process>>

StoreCreate ==
  /\ Cardinality(rows) < MaxRows
  /\ \E data \in {[name |-> "a", note |-> "null"]} : \E id \in StoreIds \ {r.id : r \in rows} :
       /\ rows' = baseCreate(rows, data, id, clock)
       /\ returned' = [op |-> "create", id |-> id, data |-> data, pre |-> rows,
                       now |-> clock, threw |-> FALSE,
                       value |-> findRowById(rows', id)]
  /\ UNCHANGED <<dbVars, norm, clock, env, rateBuckets, passed, response, directory, database, process>>

\* update with the patches the typed callers build and with the bodies
\* PATCH /api/graphs/:id hands over as they come
StoreUpdate ==
  \E id \in StoreIds :
  \E data \in {[name |-> "b"], [note |-> "null"], [name |-> "a", note |-> "m"],
               [name |-> Undefined, note |-> "m"]}
                \cup {[id |-> i] : i \in StoreIds} :
    LET r == baseUpdate(rows, id, data, clock)
    IN /\ rows' = r.table
       /\ returned' = [op |-> "update", id |-> id, data |-> data, pre |-> rows,
                       now |-> clock, threw |-> r.threw, value |-> r.value]
       /\ UNCHANGED <<dbVars, norm, clock, env, rateBuckets, passed, response, directory, database, process>>

NextStore ==
  \/ Tick
  \/ StoreCreate
  \/ StoreUpdate

SpecStore == InitStore /\ [][NextStore]_vars

----------------------------------------------------------------------------
(* The HTTP server's rate limiter.  A request is its method, its path and   *)
(* the addresses of its x-forwarded-for header; times are milliseconds.     *)

MaxRateLimit == 2

NoBucket == [count |-> 0, resetAt |-> 0]

getClientKey(req) ==
  IF req.forwarded # <<>> THEN Head(req.forwarded) ELSE "local"

bucketOf(buckets, key) == IF key \in DOMAIN buckets THEN buckets[key] ELSE NoBucket

setBucket(buckets, key, bucket) ==
  [k \in DOMAIN buckets \cup {key} |-> IF k = key THEN bucket ELSE buckets[k]]

\* a mutant of checkRateLimit: the bucket is full one request later
checkRateLimitLate(e, buckets, req, now) ==
  LET key == <<getClientKey(req), "chat">>
      bucket == bucketOf(buckets, key)
      \* Math.max(1, Math.ceil((bucket.resetAt - now) / 1000))
      seconds == (bucket.resetAt - now + 999) \div 1000
      retryAfter == IF seconds >= 1 THEN seconds ELSE 1
  IN IF req.pathname # "/api/chat" \/ e.RATE_LIMIT_MAX <= 0
     THEN [limited |-> FALSE, retryAfter |-> 0, buckets |-> buckets]
     ELSE IF bucket = NoBucket \/ bucket.resetAt <= now
     THEN [limited |-> FALSE, retryAfter |-> 0,
           buckets |-> setBucket(buckets, key,
                         [count |-> 1, resetAt |-> now + e.RATE_LIMIT_WINDOW_MS])]
     ELSE IF bucket.count > e.RATE_LIMIT_MAX
     THEN [limited |-> TRUE, retryAfter |-> retryAfter, buckets |-> buckets]
     ELSE [limited |-> FALSE, retryAfter |-> 0,
           buckets |-> setBucket(buckets, key, [bucket EXCEPT !.count = @ + 1])]

\* checkRateLimit: null (not limited) or the 429 response
checkRateLimit(e, buckets, req, now) ==
  LET key == <<getClientKey(req), "chat">>
      bucket == bucketOf(buckets, key)
      \* Math.max(1, Math.ceil((bucket.resetAt - now) / 1000))
      seconds == (bucket.resetAt - now + 999) \div 1000
      retryAfter == IF seconds >= 1 THEN seconds ELSE 1
  IN IF req.pathname # "/api/chat" \/ e.RATE_LIMIT_MAX <= 0
     THEN [limited |-> FALSE, retryAfter |-> 0, buckets |-> buckets]
     ELSE IF bucket = NoBucket \/ bucket.resetAt <= now
     THEN [limited |-> FALSE, retryAfter |-> 0,
           buckets |-> setBucket(buckets, key,
                         [count |-> 1, resetAt |-> now + e.RATE_LIMIT_WINDOW_MS])]
     ELSE IF bucket.count + 1 > e.RATE_LIMIT_MAX
     THEN [limited |-> TRUE, retryAfter |-> retryAfter, buckets |-> buckets]
     ELSE [limited |-> FALSE, retryAfter |-> 0,
           buckets |-> setBucket(buckets, key, [bucket EXCEPT !.count = @ + 1])]

\* Bun.serve fetch: the preflight and the health check are answered before the
\* limiter; every other request goes through it and then on to the routes.
fetch(e, buckets, req, now) ==
  LET limited == checkRateLimit(e, buckets, req, now)
  IN IF req.method = "OPTIONS"
     THEN [status |-> 204, retryAfter |-> 0, passedOn |-> FALSE, buckets |-> buckets]
     ELSE IF req.pathname = "/health" /\ req.method = "GET"
     THEN [status |-> 200, retryAfter |-> 0, passedOn |-> FALSE, buckets |-> buckets]
     ELSE IF limited.limited
     THEN [status |-> 429, retryAfter |-> limited.retryAfter, passedOn |-> FALSE,
           buckets |-> buckets]
     ELSE [status |-> 200, retryAfter |-> 0, passedOn |-> TRUE,
           buckets |-> limited.buckets]

\* the window a request to /api/chat that was passed on fell into: the client's
\* key and the resetAt of the client's bucket
windowOf(buckets, req) ==
  LET key == <<getClientKey(req), "chat">>
  IN <<key, bucketOf(buckets, key).resetAt>>

InitRateLimit ==
  /\ InitDb
  /\ norm = NoText
  /\ clock = 1
  /\ rows = {}
  /\ returned = [op |-> "none"]
  /\ \E m \in 0..MaxRateLimit : \E w \in {2 * ClockStep, 3 * ClockStep} :
       env = [RATE_LIMIT_MAX |-> m, RATE_LIMIT_WINDOW_MS |-> w]
  /\ rateBuckets = <<>>
  /\ passed = <<>>
  /\ response = NoResponse
  /\ directory = {}
  /\ database = [tables |-> {}, schema_migrations |-> {}, statements |-> {},
                 log |-> <<>>, rolledBack |-> {}]
  /\ process = NoProcess

\* one request served; a request to /api/chat that was passed on is counted in
\* its window
Fetch ==
  \E req \in [method : {"POST"}, pathname : {"/api/chat", "/api/graphs"},
              forwarded : {<<>>, <<"10.0.0.1", "10.0.0.2">>}]
               \cup {[method |-> "OPTIONS", pathname |-> "/api/chat", forwarded |-> <<>>],
                     [method |-> "GET", pathname |-> "/health", forwarded |-> <<>>]} :
    LET r == fetch(env, rateBuckets, req, clock)
        key == <<getClientKey(req), "chat">>
        window == windowOf(r.buckets, req)
    IN /\ rateBuckets' = r.buckets
       /\ passed' = IF r.passedOn /\ req.pathname = "/api/chat" /\ key \in DOMAIN r.buckets
                    THEN [w \in DOMAIN passed \cup {window} |->
                            IF w = window
                            THEN (IF w \in DOMAIN passed THEN passed[w] ELSE 0) + 1
                            ELSE passed[w]]
                    ELSE passed
       /\ response' = [status |-> r.status, retryAfter |-> r.retryAfter,
                       passedOn |-> r.passedOn, request |-> req, at |-> clock,
                       pre |-> rateBuckets]
       /\ UNCHANGED <<dbVars, norm, clock, rows, returned, env, directory, database, process>>

NextRateLimit ==
  \/ Tick
  \/ Fetch

SpecRateLimit == InitRateLimit /\ [][NextRateLimit]_vars

----------------------------------------------------------------------------
(* Start-up: runMigrations.  A migration file is named by its number (the   *)
(* names sort as the numbers do) and holds StatementsPerFile statements;    *)
(* the database file outlives the process.                                  *)

MaxFiles == 3
MaxStarts == 3
StatementsPerFile == 2

\* Array.prototype.sort of the file names
RECURSIVE sort(_)
sort(names) ==
  IF names = {} THEN <<>>
  ELSE LET first == CHOOSE n \in names : \A m \in names : n <= m
       IN <<first>> \o sort(names \ {first})

\* db.exec(sql) up to the statement that fails (all of them when none does)
exec(data, version, failAt) ==
  [data EXCEPT !.statements =
     @ \cup {<<version, k>> : k \in 1..(IF failAt = 0 THEN StatementsPerFile
                                         ELSE failAt - 1)}]

\* a mutant of migrate: what the failed migration had executed stays
migrateNoRollback(data, version, failAt, now) ==
  LET executed == exec(data, version, failAt)
      duplicate == \E r \in data.schema_migrations : r.version = version
  IN IF failAt # 0 \/ duplicate
     THEN [threw |-> TRUE,
           database |-> [executed EXCEPT !.rolledBack = @ \cup {version}]]
     ELSE [threw |-> FALSE,
           database |-> [executed EXCEPT
                           !.schema_migrations =
                              @ \cup {[version |-> version, applied_at |-> now]},
                           !.log = Append(@, version)]]

\* db.transaction(() => { db.exec(sql); db.run("INSERT INTO schema_migrations ...") })():
\* a statement that fails, or a version that is already recorded (primary key),
\* raises and the transaction rolls back
migrate(data, version, failAt, now) ==
  LET executed == exec(data, version, failAt)
      duplicate == \E r \in data.schema_migrations : r.version = version
  IN IF failAt # 0 \/ duplicate
     THEN [threw |-> TRUE,
           database |-> [data EXCEPT !.rolledBack = @ \cup {version}]]
     ELSE [threw |-> FALSE,
           database |-> [executed EXCEPT
                           !.schema_migrations =
                              @ \cup {[version |-> version, applied_at |-> now]},
                           !.log = Append(@, version)]]

InitMigrate ==
  /\ InitDb
  /\ norm = NoText
  /\ clock = 1
  /\ rows = {}
  /\ returned = [op |-> "none"]
  /\ env = [RATE_LIMIT_MAX |-> 60, RATE_LIMIT_WINDOW_MS |-> 60000]
  /\ rateBuckets = <<>>
  /\ passed = <<>>
  /\ response = NoResponse
  /\ directory \in SUBSET ({[name |-> n, ext |-> ".sql"] : n \in 1..MaxFiles}
                              \cup {[name |-> 1, ext |-> ".md"]})
  /\ database = [tables |-> {}, schema_migrations |-> {}, statements |-> {},
                 log |-> <<>>, rolledBack |-> {}]
  /\ process = NoProcess

\* a process starts and runMigrations runs up to its loop: CREATE TABLE IF NOT
\* EXISTS, the sorted files, the versions already recorded
RunMigrations ==
  /\ process.pc = "stopped"
  /\ process.starts < MaxStarts
  /\ database' = [database EXCEPT !.tables = @ \cup {"schema_migrations"}]
  /\ process' = [pc |-> "running", starts |-> process.starts + 1,
                 files |-> sort({e.name : e \in {f \in directory : f.ext = ".sql"}}),
                 applied |-> {r.version : r \in database.schema_migrations},
                 index |-> 1, skipped |-> 0]
  /\ UNCHANGED <<dbVars, norm, clock, rows, returned, env, rateBuckets, passed, response, directory>>

\* one turn of for (const file of files): skip a recorded version, or apply the
\* file in a transaction; a failure ends runMigrations and with it the process
ApplyMigration ==
  /\ process.pc = "running"
  /\ process.index <= Len(process.files)
  /\ LET version == process.files[process.index]
     IN IF version \in process.applied
        THEN /\ process' = [process EXCEPT !.index = @ + 1, !.skipped = @ + 1]
             /\ UNCHANGED database
        ELSE \E failAt \in 0..StatementsPerFile + 1 :
               LET r == migrate(database, version, failAt, clock)
               IN /\ database' = r.database
                  /\ process' = IF r.threw THEN [process EXCEPT !.pc = "stopped"]
                                ELSE [process EXCEPT !.index = @ + 1]
  /\ UNCHANGED <<dbVars, norm, clock, rows, returned, env, rateBuckets, passed, response, directory>>

\* the process ends: after serving, or killed while it migrates
Exit ==
  /\ process.pc = "running"
  /\ process' = [process EXCEPT !.pc = "stopped"]
  /\ UNCHANGED <<dbVars, norm, clock, rows, returned, env, rateBuckets, passed, response, directory, database>>

NextMigrate ==
  \/ RunMigrations
  \/ ApplyMigration
  \/ Exit

SpecMigrate == InitMigrate /\ [][NextMigrate]_vars

----------------------------------------------------------------------------
(* Properties *)

SiblingsOf(J, graphId, parentId) == {j \in J : j.graphId = graphId /\ j.parentId = parentId}

\* the Job id and its ancestors, following parentId upwards
RECURSIVE SelfAndAncestors(_, _)
SelfAndAncestors(J, id) ==
  LET j == findById(J, id)
  IN IF j = NoJob THEN {}
     ELSE IF j.parentId = NULL THEN {id}
     ELSE {id} \cup SelfAndAncestors(J, j.parentId)

\* C1: for every (graphId, parentId) the sortOrder values of the Jobs with that
\* parent are exactly 0 .. n-1, n the number of those Jobs: no gaps, no duplicates.
C1_SortOrderContiguous ==
  \A j \in jobs :
    {k.sortOrder : k \in Siblings(jobs, j)} = 0..(Cardinality(Siblings(jobs, j)) - 1)

\* C2: after a successful insertAfter the new Job has the anchor's sortOrder + 1,
\* every sibling of the anchor that had a greater sortOrder has its old value + 1,
\* and the anchor and the siblings with a lesser sortOrder keep theirs.
C2_InsertAfterShifts ==
  (last.op = "job_insert_after" /\ last.result = "ok") =>
    LET anchor == findById(last.pre.jobs, last.target)
        new == findById(jobs, last.ids[1])
    IN /\ new # NoJob
       /\ findById(last.pre.jobs, new.id) = NoJob
       /\ new.sortOrder = anchor.sortOrder + 1
       /\ \A j \in SiblingsOf(last.pre.jobs, anchor.graphId, anchor.parentId) :
            findById(jobs, j.id).sortOrder =
              IF j.sortOrder > anchor.sortOrder THEN j.sortOrder + 1 ELSE j.sortOrder

\* an insert after an anchor that has siblings before it and after it
C2_Witness ==
  /\ last.op = "job_insert_after" /\ last.result = "ok"
  /\ LET anchor == findById(last.pre.jobs, last.target)
     IN /\ \E j \in SiblingsOf(last.pre.jobs, anchor.graphId, anchor.parentId) :
             j.sortOrder > anchor.sortOrder
        /\ \E j \in SiblingsOf(last.pre.jobs, anchor.graphId, anchor.parentId) :
             j.sortOrder < anchor.sortOrder

\* ids lists every sibling of (graphId, parentId) exactly once
IsSiblingList(J, graphId, parentId, ids) ==
  /\ Cardinality(Range(ids)) = Len(ids)
  /\ Range(ids) = {j.id : j \in SiblingsOf(J, graphId, parentId)}

ReadBack(J, graphId, parentId) ==
  Ids(IF parentId # NULL THEN findByParentId(J, parentId) ELSE findRootJobs(J, graphId))

\* C3: when ids is a permutation of the sibling set of (graphId, parentId), after
\* reorder(ids) the siblings read back in ascending sortOrder are ids, in that order.
C3_ReorderReadsBack ==
  (/\ last.op = "job_reorder"
   /\ IsSiblingList(last.pre.jobs, last.graphId, last.target, last.ids)) =>
    /\ last.result = "ok"
    /\ ReadBack(jobs, last.graphId, last.target) = last.ids

\* a reorder that rearranged at least three siblings
C3_Witness ==
  /\ last.op = "job_reorder" /\ last.result = "ok"
  /\ Len(last.ids) >= 3
  /\ ReadBack(last.pre.jobs, last.graphId, last.target) # last.ids

\* C4: a reorder whose id list is not exactly the sibling set of (graphId, parentId)
\* (an id omitted, repeated, missing, of another graph or parent) is rejected and
\* every Job keeps its sortOrder.
C4_BadReorderRejected ==
  (/\ last.op = "job_reorder"
   /\ ~IsSiblingList(last.pre.jobs, last.graphId, last.target, last.ids)) =>
    /\ last.result # "ok"
    /\ jobs = last.pre.jobs

\* a reorder of a list that omits one of at least two siblings
C4_Witness ==
  /\ last.op = "job_reorder" /\ last.result = "missing"
  /\ Len(last.ids) >= 1
  /\ Range(last.ids) \subseteq {j.id : j \in SiblingsOf(jobs, last.graphId, last.target)}

\* C5: deleting a Job removes that Job, its descendants, the Solutions of any of
\* them and the Edges from or to any of them, and nothing else.
C5_DeleteCascades ==
  (last.op = "job_delete") =>
    LET gone == {j.id : j \in {k \in last.pre.jobs :
                                 last.target \in SelfAndAncestors(last.pre.jobs, k.id)}}
    IN /\ jobs = {j \in last.pre.jobs : j.id \notin gone}
       /\ solutions = {s \in last.pre.solutions : s.jobId \notin gone}
       /\ edges = {e \in last.pre.edges : e.fromId \notin gone /\ e.toId \notin gone}

\* a delete that took a grandchild and a Solution or Edge of a descendant with it,
\* and left another Job in place
C5_Witness ==
  /\ last.op = "job_delete" /\ last.result = "deleted"
  /\ jobs # {}
  /\ \E j \in last.pre.jobs :
       /\ j.parentId # NULL /\ j.parentId # last.target
       /\ last.target \in SelfAndAncestors(last.pre.jobs, j.id)
  /\ \/ \E s \in last.pre.solutions \ solutions : s.jobId # last.target
     \/ \E e \in last.pre.edges \ edges : e.fromId # last.target /\ e.toId # last.target

\* C6: inserting after an anchor whose parent already has the level's maximum of
\* children (12 small, 6 micro) is rejected: no Job is created, no sortOrder changes.
C6_LimitRejects ==
  LET anchor == findById(last.pre.jobs, last.target)
  IN (/\ last.op = "job_insert_after"
      /\ anchor # NoJob /\ anchor.parentId # NULL
      /\ \/ (anchor.level = "small"
              /\ countChildren(last.pre.jobs, anchor.parentId) >= MaxSmallSiblings)
         \/ (anchor.level = "micro"
              /\ countChildren(last.pre.jobs, anchor.parentId) >= MaxMicroSiblings)) =>
       /\ last.result = "limit"
       /\ jobs = last.pre.jobs

\* an insert after a small Job whose core Job has 12 children
C6_Witness ==
  /\ last.op = "job_insert_after" /\ last.result = "limit"
  /\ findById(jobs, last.target).level = "small"
  /\ countChildren(jobs, findById(jobs, last.target).parentId) = MaxSmallSiblings

\* C7: insertAfter with an anchor id that names no Job fails with NotFound, creates
\* no Job and changes no sortOrder.
C7_MissingAnchorRejected ==
  (last.op = "job_insert_after" /\ findById(last.pre.jobs, last.target) = NoJob) =>
    /\ last.result = "not_found"
    /\ jobs = last.pre.jobs

\* an insert after a missing anchor, in a graph that has Jobs
C7_Witness ==
  /\ last.op = "job_insert_after" /\ last.target = MissingId
  /\ jobs # {}

\* C8: insertAfter is atomic: when the creation of the new Job fails after the shift,
\* every Job has the sortOrder it had before; the shifted siblings are never seen
\* without the new Job.
C8_InsertAfterAtomic ==
  (last.op = "job_insert_after") =>
    \/ /\ last.result = "ok"
       /\ findById(jobs, last.ids[1]) # NoJob
    \/ /\ last.result # "ok"
       /\ jobs = last.pre.jobs

\* an insert whose INSERT raised after siblings had been shifted
C8_Witness ==
  /\ last.op = "job_insert_after" /\ last.result = "threw"
  /\ LET anchor == findById(jobs, last.target)
     IN \E j \in SiblingsOf(jobs, anchor.graphId, anchor.parentId) :
          j.sortOrder > anchor.sortOrder

C10_CreateManyAllOrNothing ==
  (last.op \in {"small_jobs_generate", "micro_jobs_generate"} /\ last.result = "failed") =>
    jobs = last.pre.jobs

\* a batch whose last INSERT raised, after the Jobs before it had been inserted
C10_Witness ==
  /\ last.op \in {"small_jobs_generate", "micro_jobs_generate"}
  /\ last.result = "failed"

\* C11: after a graph-creating operation (graph_create or POST /api/graphs), also
\* one that fails part-way, the created Graph's coreJobId is the id of an existing
\* core Job of that graph, and its bigJobId, when not null, the id of an existing
\* big Job of that graph.
C11_GraphCreatedWithItsJobs ==
  last.op \in {"graph_create", "post_graphs"} =>
    \A g \in graphs :
      g.id = last.graphId =>
        /\ findById(jobs, g.coreJobId).level = "core"
        /\ findById(jobs, g.coreJobId).graphId = g.id
        /\ g.bigJobId # NULL =>
              /\ findById(jobs, g.bigJobId).level = "big"
              /\ findById(jobs, g.bigJobId).graphId = g.id

\* C12: every small Job's parent is the core Job of its graph, every micro Job's
\* parent is a small Job, and every Job with a parent is in its parent's graph.
C12_ParentLevels ==
  \A j \in jobs :
    /\ j.level = "small" =>
         /\ findGraphById(graphs, j.graphId) # NoGraph
         /\ j.parentId = findGraphById(graphs, j.graphId).coreJobId
         /\ findById(jobs, j.parentId).level = "core"
    /\ j.level = "micro" => findById(jobs, j.parentId).level = "small"
    /\ j.parentId # NULL => findById(jobs, j.parentId).graphId = j.graphId

\* a micro Job inserted by job_insert_after, in a graph whose Jobs were generated
C12_Witness ==
  /\ last.op = "job_insert_after" /\ last.result = "ok"
  /\ findById(jobs, last.ids[1]).level = "micro"

\* C13: job_update, job_insert_after, job_reorder and autofix leave the level of
\* every existing Job as it was; job_update also leaves its graphId, parentId and
\* sortOrder as they were.
C13_LevelFixed ==
  last.op \in {"job_update", "job_insert_after", "job_reorder", "autofix"} =>
    \A j \in last.pre.jobs :
      LET now == findById(jobs, j.id)
      IN /\ now # NoJob
         /\ now.level = j.level
         /\ last.op = "job_update" =>
              /\ now.graphId = j.graphId
              /\ now.parentId = j.parentId
              /\ now.sortOrder = j.sortOrder

\* a job_update whose patch carried level and sortOrder keys, and changed the Job
C13_Witness ==
  /\ last.op = "job_update" /\ last.result = "ok"
  /\ findById(jobs, last.target).label # findById(last.pre.jobs, last.target).label

\* C14: each micro Job's phase is the phase of its parent small Job.
C14_MicroPhaseInherited ==
  \A j \in jobs :
    j.level = "micro" => j.phase = findById(jobs, j.parentId).phase

\* C15: every big Job and every core Job has phase "during".
C15_RootPhaseDuring ==
  \A j \in jobs : j.level \in {"big", "core"} => j.phase = "during"

\* C16: normalizeFormulation is idempotent for both language profiles: applied to
\* its own result it returns that result, for every input text.
C16_NormalizeFormulationIdempotent ==
  norm.fn = "normalizeFormulation" => norm.twice = norm.once

\* C17: when autofix has run on a graph, running it again on the same graph with
\* nothing written in between returns an empty change list and writes nothing.
C17_SecondAutofixEmpty ==
  (last.op = "autofix" /\ last.result = "ok") =>
    LET again == autofixGraph(db, last.graphId,
                              findGraphById(graphs, last.graphId).language, 0)
    IN /\ again.changes = <<>>
       /\ again.db = db

\* the entries autofix is to report for the Jobs J of a graph
ExpectedChanges(J, language) ==
  {Change(j.id, "formulation", j.formulation,
          normalizeFormulation(j.formulation, language)) :
     j \in {k \in J : normalizeFormulation(k.formulation, language) # k.formulation}}
  \cup {Change(j.id, "label", j.label, normalizeLabel(j.label, language)) :
          j \in {k \in J : normalizeLabel(k.label, language) # k.label}}

\* C18: the change list autofix returns has exactly one entry (jobId, field,
\* oldValue, newValue) for each formulation and label of the graph's Jobs that
\* differs from its normalized value; afterwards those fields hold newValue, and
\* every other field and every other Job is as it was.
C18_AutofixChanges ==
  (last.op = "autofix" /\ last.result = "ok") =>
    LET language == findGraphById(graphs, last.graphId).language
        J == {j \in last.pre.jobs : j.graphId = last.graphId}
        changes == last.report.changes
    IN /\ Range(changes) = ExpectedChanges(J, language)
       /\ Len(changes) = Cardinality(ExpectedChanges(J, language))
       /\ \A i \in 1..Len(changes) :
            findById(jobs, changes[i].jobId)[changes[i].field] = changes[i].newValue
       /\ jobs = {IF \E i \in 1..Len(changes) : changes[i].jobId = j.id
                  THEN [j EXCEPT
                          !.formulation =
                             IF \E i \in 1..Len(changes) :
                                  changes[i].jobId = j.id /\ changes[i].field = "formulation"
                             THEN normalizeFormulation(j.formulation, language) ELSE @,
                          !.label =
                             IF \E i \in 1..Len(changes) :
                                  changes[i].jobId = j.id /\ changes[i].field = "label"
                             THEN normalizeLabel(j.label, language) ELSE @]
                  ELSE j : j \in last.pre.jobs}
       /\ solutions = last.pre.solutions
       /\ edges = last.pre.edges

\* an autofix that changed the formulation of one Job and the label of another, and
\* left a Job of the graph as it was
C18_Witness ==
  /\ last.op = "autofix" /\ last.result = "ok"
  /\ \E i, k \in 1..Len(last.report.changes) :
       /\ last.report.changes[i].field = "formulation"
       /\ last.report.changes[k].field = "label"
       /\ last.report.changes[i].jobId # last.report.changes[k].jobId
  /\ \E j \in jobs : j.graphId = last.graphId /\ j \in last.pre.jobs

\* C20: a validation result has valid = true exactly when its errors list is
\* empty, and no MULTIPLE_ACTIONS, UNKNOWN_PHASE, TOO_FEW_* or TOO_MANY_* finding
\* is in errors.
C20_ValidIffNoErrors ==
  (last.op \in {"validate", "autofix"} /\ last.result = "ok") =>
    /\ last.report.valid <=> (last.report.errors = <<>>)
    /\ \A i \in 1..Len(last.report.errors) :
         last.report.errors[i].code \notin
           {"MULTIPLE_ACTIONS", "UNKNOWN_PHASE", "TOO_FEW_SMALL_JOBS",
            "TOO_MANY_SMALL_JOBS", "TOO_FEW_MICRO_JOBS", "TOO_MANY_MICRO_JOBS"}

\* a valid graph whose report has a MULTIPLE_ACTIONS, an UNKNOWN_PHASE and a
\* sibling-count warning
C20_Witness ==
  /\ last.op \in {"validate", "autofix"} /\ last.result = "ok"
  /\ last.report.valid
  /\ \A c \in {"MULTIPLE_ACTIONS", "UNKNOWN_PHASE", "TOO_FEW_MICRO_JOBS"} :
       \E i \in 1..Len(last.report.warnings) : last.report.warnings[i].code = c

\* C19: validate on a graph whose every formulation starts with "I want to " and
\* whose labels never do, with exactly 10 small Jobs under the core Job and 4 micro
\* Jobs under each, reports valid = true and no TOO_FEW_* or TOO_MANY_* warning.
C19_FullGraphNoCountWarnings ==
  LET g == findGraphById(graphs, last.graphId)
      J == {j \in jobs : j.graphId = g.id}
      smallJobs == {j \in J : j.level = "small"}
      \* the Jobs of graph g are as the statement asks
      IsFullGraph ==
        /\ \A j \in J :
             /\ startsWith(j.formulation, CANONICAL_PREFIX_EN \o <<" ">>)
             /\ ~startsWith(j.label, CANONICAL_PREFIX_EN \o <<" ">>)
             /\ ~startsWith(toLowerCase(j.label), toLowerCase(CANONICAL_PREFIX_EN))
             /\ j.label # <<>>
             /\ j.level = "micro" => findById(J, j.parentId).level = "small"
        /\ findById(J, g.coreJobId).level = "core"
        /\ \A j \in smallJobs : j.parentId = g.coreJobId
        /\ Cardinality(smallJobs) = DefaultSmallCount
        /\ \A j \in smallJobs : countChildren(J, j.id) = DefaultCountPerJob
  IN
  (/\ last.op = "validate" /\ last.result = "ok"
   /\ IsFullGraph) =>
    /\ last.report.valid
    /\ \A i \in 1..Len(last.report.warnings) :
         last.report.warnings[i].code \notin
           {"TOO_FEW_SMALL_JOBS", "TOO_MANY_SMALL_JOBS", "TOO_FEW_MICRO_JOBS",
            "TOO_MANY_MICRO_JOBS"}

\* C21: a validate call (without autofix) leaves the stored Graphs, Jobs, Solutions
\* and Edges exactly as they were, whatever it reports.
C21_ValidateReadsOnly ==
  [][last'.op = "validate" => UNCHANGED <<graphs, jobs, solutions, edges>>]_vars

\* a validate call that reported an error and a warning on a graph with texts an
\* autofix would have changed
C21_Witness ==
  /\ last.op = "validate" /\ last.result = "ok"
  /\ last.report.errors # <<>> /\ last.report.warnings # <<>>
  /\ autofixGraph(db, last.graphId, findGraphById(graphs, last.graphId).language,
                  0).changes # <<>>

\* C22: update(id, patch) on the entity store: for a missing id it returns null
\* and stores nothing; otherwise it returns the stored record, in which exactly
\* the fields of the patch have the patch's values and updatedAt is the time of
\* the call, every other field and every other record being as before.
C22_UpdateMergesPatch ==
  (returned.op = "update" /\ ~returned.threw) =>
    LET existing == findRowById(returned.pre, returned.id)
        sets == buildSetClause(returned.data)
    IN IF existing = NoRow
       THEN returned.value = NoRow /\ rows = returned.pre
       ELSE /\ returned.value \in rows
            /\ \A k \in DOMAIN sets : returned.value[k] = sets[k]
            /\ returned.value.updatedAt = returned.now
            /\ \A k \in DOMAIN existing \ (DOMAIN sets \cup {"updatedAt"}) :
                 returned.value[k] = existing[k]
            /\ rows \ {returned.value} = returned.pre \ {existing}

\* C23: in one window of a client's bucket at most RATE_LIMIT_MAX requests to
\* /api/chat are passed on; a request answered 429 is a request to /api/chat in
\* a window that is already full, it carries a Retry-After of at least one
\* second and it leaves every bucket as it was; no other path is ever limited.
C23_ChatRateLimited ==
  /\ \A w \in DOMAIN passed : passed[w] <= env.RATE_LIMIT_MAX
  /\ response.status = 429 =>
       /\ response.request.pathname = "/api/chat"
       /\ response.retryAfter >= 1
       /\ rateBuckets = response.pre
       /\ windowOf(rateBuckets, response.request) \in DOMAIN passed
       /\ passed[windowOf(rateBuckets, response.request)] = env.RATE_LIMIT_MAX

\* a request refused two seconds before the window ends, by a client whose
\* earlier window had run out and been replaced
C23_Witness ==
  /\ response.status = 429 /\ response.retryAfter = 2
  /\ \E w \in DOMAIN passed :
       /\ w[1] = <<getClientKey(response.request), "chat">>
       /\ w # windowOf(rateBuckets, response.request)

\* C24: no two Jobs with the same graphId and parentId have the same sortOrder.
C24_SiblingSortOrdersDistinct ==
  \A a, b \in jobs :
    (a.graphId = b.graphId /\ a.parentId = b.parentId /\ a.sortOrder = b.sortOrder)
      => a.id = b.id

\* a Job inserted among siblings whose numbering a deletion had left with a gap,
\* in front of a later sibling
C24_Witness ==
  /\ last.op = "job_insert_after" /\ Len(last.ids) = 1
  /\ LET new == findById(jobs, last.ids[1])
         sibs == SiblingsOf(jobs, new.graphId, new.parentId)
     IN /\ \E k \in 0..Cardinality(sibs) - 1 : \A j \in sibs : j.sortOrder # k
        /\ \E j \in sibs : j.sortOrder > new.sortOrder
        /\ \E j \in last.pre.jobs : j \notin jobs /\ findById(jobs, j.id) # NoJob

\* C25: however generating calls overlap, a parent gets one batch: under a core
\* Job at most one small Job has sortOrder 0 and there are at most 12 small
\* Jobs, under a small Job at most one micro Job has sortOrder 0 and there are
\* at most 6 micro Jobs.
C25_OneBatchUnderOverlap ==
  \A parent \in jobs :
    LET children == {j \in jobs : j.parentId = parent.id}
    IN /\ Cardinality({j \in children : j.sortOrder = 0}) <= 1
       /\ parent.level = "core" => Cardinality(children) <= MaxSmallSiblings
       /\ parent.level = "small" => Cardinality(children) <= MaxMicroSiblings

\* C26: every core Job has at most 12 small-level children and every small Job
\* at most 6 micro-level children.
C26_ChildrenWithinMaximum ==
  \A parent \in jobs :
    /\ parent.level = "core" =>
         Cardinality({j \in jobs : j.parentId = parent.id /\ j.level = "small"})
           <= MaxSmallSiblings
    /\ parent.level = "small" =>
         Cardinality({j \in jobs : j.parentId = parent.id /\ j.level = "micro"})
           <= MaxMicroSiblings

\* after a deletion, an insertion has brought a core Job back to 12 small Jobs
C26_Witness ==
  /\ last.op = "job_insert_after" /\ last.result = "ok"
  /\ \E id \in 1..nextId - 1 : findById(jobs, id) = NoJob
  /\ LET new == findById(jobs, last.ids[1])
     IN /\ new.level = "small"
        /\ countChildren(jobs, new.parentId) = MaxSmallSiblings

\* C27: a graph made by graph_create, while its core Job is stored, has exactly one
\* core-level Job and at most one big-level Job.
C27_OneCoreOneBig ==
  \A g \in graphs :
    (g.coreJobId # NULL /\ findById(jobs, g.coreJobId) # NoJob) =>
      /\ Cardinality({j \in jobs : j.graphId = g.id /\ j.level = "core"}) = 1
      /\ Cardinality({j \in jobs : j.graphId = g.id /\ j.level = "big"}) <= 1

\* C28: the validation that follows an autofix reports no INVALID_FORMULATION and
\* no INVALID_LABEL error.
C28_AutofixRepairsTexts ==
  (last.op = "autofix" /\ last.result = "ok") =>
    \A i \in 1..Len(last.report.errors) :
      last.report.errors[i].code \notin {"INVALID_FORMULATION", "INVALID_LABEL"}

\* C29: in the timeline view of every graph each small Job is in exactly one of
\* the groups before, during and after, the three sizes sum to
\* stats.smallJobCount, and every group and every Job's micro Jobs are in
\* ascending sortOrder.
C29_TimelineHoldsEverySmallJob ==
  \A g \in graphs :
    LET view == generateUIv1View(db, g.id)
        groups == <<view.jobs.before, view.jobs.during, view.jobs.after>>
        Ascending(seq) ==
          \A i \in 1..Len(seq) - 1 : seq[i].sortOrder <= seq[i + 1].sortOrder
    IN /\ \A j \in {k \in jobs : k.graphId = g.id /\ k.level = "small"} :
            Cardinality({<<n, i>> \in (1..3) \X (1..Cardinality(jobs)) :
                           i <= Len(groups[n]) /\ groups[n][i].id = j.id}) = 1
       /\ Len(groups[1]) + Len(groups[2]) + Len(groups[3]) = view.stats.smallJobCount
       /\ \A n \in 1..3 :
            /\ Ascending(groups[n])
            /\ \A i \in 1..Len(groups[n]) : Ascending(groups[n][i].microJobs)

\* C30: over all start-ups the migrations are committed in ascending file order,
\* each at most once, and a version is recorded exactly when all the statements
\* of its file are in effect; of an unrecorded version no statement is.
C30_MigrationsOnceInOrder ==
  /\ \A i, j \in 1..Len(database.log) : i < j => database.log[i] < database.log[j]
  /\ {r.version : r \in database.schema_migrations} = Range(database.log)
  /\ \A r, q \in database.schema_migrations : r.version = q.version => r = q
  /\ database.statements =
       {<<r.version, k>> : r \in database.schema_migrations, k \in 1..StatementsPerFile}

\* a third start-up that skips a recorded migration and has every file applied,
\* one of them after an earlier attempt at it had failed
C30_Witness ==
  /\ process.starts = 3 /\ process.skipped >= 1
  /\ Len(database.log) = MaxFiles
  /\ database.rolledBack # {}

====
